---- MODULE Spec2Model ----
(***************************************************************************)
(* Raster-to-vector path pipeline of the line tracer scripts: the          *)
(* component tracer (flood fill over the skeleton mask), the endpoint      *)
(* bridger (endpoint detection, greedy pairing, reconnection), the path    *)
(* filters (decimation, Chaikin and moving-average smoothing,              *)
(* Douglas-Peucker, curve fits), the path merger, the serializers and the  *)
(* order of the stages in the pipeline functions.  Each part is a state    *)
(* machine of its own (SpecTrace, SpecPair, SpecBridge, SpecDecim,         *)
(* SpecFilter, SpecFit, SpecMerge, SpecConnect, SpecSerial, SpecPipe); the *)
(* variables of the parts that a specification does not run stay at their  *)
(* idle values.                                                            *)
(***************************************************************************)
EXTENDS Integers, Sequences, FiniteSets, TLC

\* ------------------------------------------------------------- bounds
\* Width and height of the masks the tracer specifications enumerate.
W == 3
H == 2
\* Largest min_length handed to the tracer.
MaxMinLen == 2
\* Longest endpoint list handed to find_close_endpoints, and largest max_dist.
MaxEndpoints == 3
MaxGap == 3
\* Longest path handed to a filter, and largest squared tolerance.
MaxPathLen == 3
MaxTolSq == 5

VARIABLES
    \* tracer (extract_paths / extract_long_paths)
    skeleton,     \* the mask: the set of foreground pixels <<x, y>>
    min_length,   \* noise threshold of the tracer
    mode,         \* "stack" (depth first) or "queue" (breadth first)
    visited,      \* the visited mask, as the set of marked pixels
    scan,         \* row-major position of the outer y/x loops
    work,         \* the stack, or the queue list
    idx,          \* read position in the queue list
    points,       \* the path of the component being filled
    paths,        \* the returned path collection so far
    tpc,          \* "idle", "scan", "fill" or "done"
    \* greedy pairing (find_close_endpoints)
    endpoints,    \* the endpoint list, a sequence of <<x, y>>
    max_dist,     \* the maximum gap
    pi,           \* the outer loop index i (0-based, as in the code)
    used,         \* the set of paired indices
    connections,  \* the connections so far, as index pairs <<i, closest>>
    ppc,          \* "idle", "start", "loop" or "done"
    \* bridging pipeline (process_continuous of continuous_no_gap.py)
    bskel,        \* the skeleton mask handed to the pipeline
    bgap,         \* the maximum gap handed to find_close_endpoints
    bcand,        \* extract_endpoints: the mask of endpoint candidates
    bends,        \* the endpoint list extract_endpoints returns
    bconns,       \* the connections, as index pairs into bends
    bfixed,       \* the skeleton after connect_endpoints
    bpaths,       \* the contours skeleton_to_contours returns
    bpc,          \* "idle", "count", "cluster", "find", "connect", "trace", "done"
    \* distance decimation (simplify_path_points, reduce_point_density)
    fin,          \* the input path
    ftol2,        \* the square of the tolerance
    fmin,         \* the length below which the filter returns its input
    fonce,        \* the result of one application
    ftwice,       \* the result of applying the filter to fonce
    fpc,          \* "idle", "start", "once" or "twice"
    \* path filters (smoothing, Douglas-Peucker, curve fits)
    gin,          \* the input path
    gname,        \* the filter applied
    gparam,       \* its parameter: iterations, window, squared epsilon or n_points
    ground,       \* whether rounding leaves a residue on oblique chords
    gout,         \* the returned path
    gden,         \* the denominator of the coordinates of gout
    gfail,        \* whether the whole-path fit raised
    gfailx,       \* indices whose x polynomial fit raised
    gfaily,       \* indices whose y polynomial fit raised
    gpc,          \* "idle", "start" or "done"
    \* path merging (merge_adjacent_paths, connect_contours)
    contours,     \* the path collection handed to the merger
    mgap,         \* the gap tolerance max_gap
    mvariant,     \* "merge_adjacent_paths" or "connect_contours"
    connected,    \* the current collection, and the one returned
    changed,      \* whether the last round merged anything
    miter,        \* the number of rounds run (iterations)
    mpc,          \* "idle", "start", "loop" or "done"
    \* serializers (output_svg, output_ai)
    spaths,       \* the path collection handed to the serializer
    sheight,      \* the canvas height
    sfmt,         \* "ai" or "svg"
    si,           \* the index of the next path (0-based, as enumerate)
    sout,         \* the commands written so far
    spc,          \* "idle", "paths" or "done"
    \* pipelines (process_continuous, process_optimized)
    qvariant,     \* the pipeline: "final_continuous", "continuous_no_gap" or "process_optimized"
    qmask,        \* the skeleton mask (continuous_no_gap)
    qpaths,       \* the path collection passed from stage to stage
    qlog,         \* the stages run so far, in order
    qpc,          \* the position in the pipeline function
    \* the Douglas-Peucker recursion (recursive_simplify, rdp)
    rin,          \* the path being simplified
    rname,        \* "simplify_path_douglas" or "ramer_douglas_pecker"
    reps2,        \* the square of epsilon
    rrnd,         \* whether rounding leaves a residue on oblique chords
    rstack,       \* the pending calls, as <<start, end, depth>>, top first
    rsplits,      \* the splits made so far, as <<start, max_idx, end>>
    rdepth,       \* the deepest call so far
    rpc,          \* "idle", "run" or "done"
    \* the moving average of fast_smooth.py (simple_smooth)
    ain,          \* the path being smoothed
    awindow,      \* the window width
    ai,           \* the loop index i (0-based, as in the code)
    alo,          \* the first index of the last window averaged (0-based)
    ahi,          \* the last index of the last window averaged (0-based)
    aout,         \* the smoothed points so far
    apc           \* "idle", "start", "loop", "done" or "raised"

traceVars == <<skeleton, min_length, mode, visited, scan, work, idx, points, paths, tpc>>

pairVars == <<endpoints, max_dist, pi, used, connections, ppc>>

bridgeVars == <<bskel, bgap, bcand, bends, bconns, bfixed, bpaths, bpc>>

decimVars == <<fin, ftol2, fmin, fonce, ftwice, fpc>>

filterVars == <<gin, gname, gparam, ground, gout, gden, gfail, gfailx, gfaily, gpc>>

mergeVars == <<contours, mgap, mvariant, connected, changed, miter, mpc>>

serialVars == <<spaths, sheight, sfmt, si, sout, spc>>

pipeVars == <<qvariant, qmask, qpaths, qlog, qpc>>

recVars == <<rin, rname, reps2, rrnd, rstack, rsplits, rdepth, rpc>>

smoothVars == <<ain, awindow, ai, alo, ahi, aout, apc>>

vars == <<traceVars, pairVars, bridgeVars, decimVars, filterVars, mergeVars, serialVars, pipeVars, recVars, smoothVars>>

notTrace == <<pairVars, bridgeVars, decimVars, filterVars, mergeVars, serialVars, pipeVars, recVars, smoothVars>>

notPair == <<traceVars, bridgeVars, decimVars, filterVars, mergeVars, serialVars, pipeVars, recVars, smoothVars>>

notBridge == <<traceVars, pairVars, decimVars, filterVars, mergeVars, serialVars, pipeVars, recVars, smoothVars>>

notDecim == <<traceVars, pairVars, bridgeVars, filterVars, mergeVars, serialVars, pipeVars, recVars, smoothVars>>

notFilter == <<traceVars, pairVars, bridgeVars, decimVars, mergeVars, serialVars, pipeVars, recVars, smoothVars>>

notMerge == <<traceVars, pairVars, bridgeVars, decimVars, filterVars, serialVars, pipeVars, recVars, smoothVars>>

notSerial == <<traceVars, pairVars, bridgeVars, decimVars, filterVars, mergeVars, pipeVars, recVars, smoothVars>>

notPipe == <<traceVars, pairVars, bridgeVars, decimVars, filterVars, mergeVars, serialVars, recVars, smoothVars>>

notRec == <<traceVars, pairVars, bridgeVars, decimVars, filterVars, mergeVars, serialVars, pipeVars, smoothVars>>

notSmooth == <<traceVars, pairVars, bridgeVars, decimVars, filterVars, mergeVars, serialVars, pipeVars, recVars>>

SmoothIdle ==
    /\ ain = <<>>
    /\ awindow = 0
    /\ ai = 0
    /\ alo = 0
    /\ ahi = 0
    /\ aout = <<>>
    /\ apc = "idle"

RecIdle ==
    /\ rin = <<>>
    /\ rname = "none"
    /\ reps2 = 0
    /\ rrnd = FALSE
    /\ rstack = <<>>
    /\ rsplits = <<>>
    /\ rdepth = 0
    /\ rpc = "idle"

PipeIdle ==
    /\ qvariant = "none"
    /\ qmask = {}
    /\ qpaths = <<>>
    /\ qlog = <<>>
    /\ qpc = "idle"

SerialIdle ==
    /\ spaths = <<>>
    /\ sheight = 0
    /\ sfmt = "none"
    /\ si = 0
    /\ sout = <<>>
    /\ spc = "idle"

MergeIdle ==
    /\ contours = <<>>
    /\ mgap = 0
    /\ mvariant = "none"
    /\ connected = <<>>
    /\ changed = FALSE
    /\ miter = 0
    /\ mpc = "idle"

FilterIdle ==
    /\ gin = <<>>
    /\ gname = "none"
    /\ gparam = 0
    /\ ground = FALSE
    /\ gout = <<>>
    /\ gden = 1
    /\ gfail = FALSE
    /\ gfailx = {}
    /\ gfaily = {}
    /\ gpc = "idle"

DecimIdle ==
    /\ fin = <<>>
    /\ ftol2 = 0
    /\ fmin = 0
    /\ fonce = <<>>
    /\ ftwice = <<>>
    /\ fpc = "idle"

TraceIdle ==
    /\ skeleton = {}
    /\ min_length = 0
    /\ mode = "stack"
    /\ visited = {}
    /\ scan = 0
    /\ work = <<>>
    /\ idx = 0
    /\ points = <<>>
    /\ paths = <<>>
    /\ tpc = "idle"

BridgeIdle ==
    /\ bskel = {}
    /\ bgap = 0
    /\ bcand = {}
    /\ bends = <<>>
    /\ bconns = <<>>
    /\ bfixed = {}
    /\ bpaths = <<>>
    /\ bpc = "idle"

PairIdle ==
    /\ endpoints = <<>>
    /\ max_dist = 0
    /\ pi = 0
    /\ used = {}
    /\ connections = <<>>
    /\ ppc = "idle"

\* ------------------------------------------------------------- helpers
Pixels == (0 .. W - 1) \X (0 .. H - 1)

SeqSet(s) == {s[k] : k \in 1 .. Len(s)}

NoDup(s) == \A a, b \in 1 .. Len(s) : a # b => s[a] # s[b]

Abs(n) == IF n < 0 THEN -n ELSE n

Max2(a, b) == IF a > b THEN a ELSE b

Chebyshev(p, q) == Max2(Abs(p[1] - q[1]), Abs(p[2] - q[2]))

RECURSIVE Flatten(_)
Flatten(ss) == IF ss = <<>> THEN <<>> ELSE Head(ss) \o Flatten(Tail(ss))

\* The 8-connected component of pixel p in mask m, by closure.
RECURSIVE Grow(_, _)
Grow(m, S) ==
    LET T == S \cup {q \in m : \E s \in S : Chebyshev(s, q) = 1}
    IN IF T = S THEN S ELSE Grow(m, T)

Component(m, p) == Grow(m, {p})

\* The 8-connected components of mask m.
RECURSIVE Components(_)
Components(m) ==
    IF m = {} THEN {}
    ELSE LET C == Component(m, CHOOSE p \in m : TRUE)
         IN {C} \cup Components(m \ C)

\* ------------------------------------------------------------- tracer
\* A typo in one offset: the right-hand neighbour taken two columns away.
NeighborOffsetsSkewed ==
    << <<-1, -1>>, <<0, -1>>, <<1, -1>>, <<-1, 0>>, <<2, 0>>,
       <<-1, 1>>, <<0, 1>>, <<1, 1>> >>

\* Only the 4-neighbourhood: the diagonal offsets dropped.
NeighborOffsetsCross == << <<0, -1>>, <<-1, 0>>, <<1, 0>>, <<0, 1>> >>

\* for dy in [-1, 0, 1]: for dx in [-1, 0, 1]: skip dx == dy == 0; as <<dx, dy>>.
NeighborOffsets ==
    << <<-1, -1>>, <<0, -1>>, <<1, -1>>, <<-1, 0>>, <<1, 0>>,
       <<-1, 1>>, <<0, 1>>, <<1, 1>> >>

\* 0 <= nx < width and 0 <= ny < height
InGrid(p, width, height) ==
    0 <= p[1] /\ p[1] < width /\ 0 <= p[2] /\ p[2] < height

\* The neighbours pushed while visiting c, in the order of the dy/dx loops:
\* in the grid, foreground, and not yet marked.
PushedNeighbors(c, m, vis, width, height) ==
    LET cand == [k \in 1 .. Len(NeighborOffsets) |->
                    <<c[1] + NeighborOffsets[k][1], c[2] + NeighborOffsets[k][2]>>]
        Ok(p) == InGrid(p, width, height) /\ p \in m /\ p \notin vis
    IN SelectSeq(cand, Ok)

\* The marking forgotten at push time.
MarkPushedNever(vis, pushed) == vis

\* visited[ny, nx] = 255 for every pixel pushed.
MarkPushed(vis, pushed) == vis \cup SeqSet(pushed)

\* The threshold off by one: len(points) > min_length.
KeepPathStrict(pts, minLen) == Len(pts) > minLen

\* if len(points) >= min_length: paths.append(points)
KeepPath(pts, minLen) == Len(pts) >= minLen

ScanPixel(s) == <<s % W, s \div W>>

TraceInit ==
    /\ skeleton \in SUBSET Pixels
    /\ min_length \in 0 .. MaxMinLen
    /\ mode \in {"stack", "queue"}
    /\ visited = {}
    /\ scan = 0
    /\ work = <<>>
    /\ idx = 0
    /\ points = <<>>
    /\ paths = <<>>
    /\ tpc = "scan"

\* The outer loops move past a background or already visited pixel.
TraceSkip ==
    /\ tpc = "scan"
    /\ scan < W * H
    /\ (ScanPixel(scan) \notin skeleton \/ ScanPixel(scan) \in visited)
    /\ scan' = scan + 1
    /\ UNCHANGED <<skeleton, min_length, mode, visited, work, idx, points, paths, tpc>>
    /\ UNCHANGED notTrace

\* The outer loops find an unvisited foreground pixel and seed the fill.
TraceSeed ==
    /\ tpc = "scan"
    /\ scan < W * H
    /\ ScanPixel(scan) \in skeleton
    /\ ScanPixel(scan) \notin visited
    /\ points' = <<>>
    /\ work' = <<ScanPixel(scan)>>
    /\ idx' = 0
    /\ visited' = visited \cup {ScanPixel(scan)}
    /\ tpc' = "fill"
    /\ UNCHANGED <<skeleton, min_length, mode, scan, paths>>
    /\ UNCHANGED notTrace

\* One iteration of "while stack": pop the top, append it, push its neighbours.
TraceVisitStack ==
    /\ tpc = "fill"
    /\ mode = "stack"
    /\ work # <<>>
    /\ LET c == work[Len(work)]
           pushed == PushedNeighbors(c, skeleton, visited, W, H)
       IN /\ points' = Append(points, c)
          /\ work' = SubSeq(work, 1, Len(work) - 1) \o pushed
          /\ visited' = MarkPushed(visited, pushed)
    /\ UNCHANGED <<skeleton, min_length, mode, scan, idx, paths, tpc>>
    /\ UNCHANGED notTrace

\* One iteration of "while idx < len(queue)": read queue[idx], append it,
\* append its neighbours to the queue.  (lines_to_contours appends a pixel to
\* the path when it enters the queue: the same order.)
TraceVisitQueue ==
    /\ tpc = "fill"
    /\ mode = "queue"
    /\ idx < Len(work)
    /\ LET c == work[idx + 1]
           pushed == PushedNeighbors(c, skeleton, visited, W, H)
       IN /\ points' = Append(points, c)
          /\ work' = work \o pushed
          /\ idx' = idx + 1
          /\ visited' = MarkPushed(visited, pushed)
    /\ UNCHANGED <<skeleton, min_length, mode, scan, paths, tpc>>
    /\ UNCHANGED notTrace

\* The stack fill declared over while one pixel is still waiting.
FillDoneStackEarly ==
    \/ mode = "stack" /\ Len(work) <= 1
    \/ mode = "queue" /\ idx >= Len(work)

FillDone ==
    \/ mode = "stack" /\ work = <<>>
    \/ mode = "queue" /\ idx >= Len(work)

\* The fill is exhausted: keep the path if it is long enough, resume the scan.
TraceEmit ==
    /\ tpc = "fill"
    /\ FillDone
    /\ paths' = IF KeepPath(points, min_length) THEN Append(paths, points) ELSE paths
    /\ points' = <<>>
    /\ work' = <<>>
    /\ idx' = 0
    /\ scan' = scan + 1
    /\ tpc' = "scan"
    /\ UNCHANGED <<skeleton, min_length, mode, visited>>
    /\ UNCHANGED notTrace

\* The outer loops are over: return paths.
TraceReturn ==
    /\ tpc = "scan"
    /\ scan = W * H
    /\ tpc' = "done"
    /\ UNCHANGED <<skeleton, min_length, mode, visited, scan, work, idx, points, paths>>
    /\ UNCHANGED notTrace

TraceNext ==
    \/ TraceSkip
    \/ TraceSeed
    \/ TraceVisitStack
    \/ TraceVisitQueue
    \/ TraceEmit
    \/ TraceReturn

TraceSpecInit == TraceInit /\ PairIdle /\ BridgeIdle /\ DecimIdle /\ FilterIdle /\ MergeIdle /\ SerialIdle /\ PipeIdle /\ RecIdle /\ SmoothIdle

SpecTrace == TraceSpecInit /\ [][TraceNext]_vars

\* Pixels waiting in the stack, or not yet read from the queue.
Pending == IF mode = "queue" THEN SubSeq(work, idx + 1, Len(work)) ELSE work

PathPixels == UNION {SeqSet(paths[k]) : k \in 1 .. Len(paths)}

LargeComponents ==
    UNION {C \in Components(skeleton) : Cardinality(C) >= min_length}

\* ------------------------------------------------------------- tracer claims
\* C1: the tracer never pushes or appends a pixel twice: over the returned
\* paths, the path being filled and the pixels still waiting in the stack or
\* queue, every coordinate occurs at most once, and each is a foreground pixel.
C1_NoPixelTwice ==
    LET all == Flatten(paths) \o points \o Pending
    IN NoDup(all) /\ SeqSet(all) \subseteq skeleton

\* The tracer has returned two paths of two or more pixels each.
C1_Witness ==
    /\ tpc = "done"
    /\ Len(paths) >= 2
    /\ \A k \in 1 .. Len(paths) : Len(paths[k]) >= 2

\* C2 as stated: on return the union of the paths' points is the whole
\* foreground set.
C2_Original == tpc = "done" => PathPixels = skeleton

\* C2 amended: on return the union of the paths' points is exactly the set of
\* foreground pixels whose 8-connected component has at least min_length
\* pixels; the pixels of shorter components are discarded.
C2_KeptComponents == tpc = "done" => PathPixels = LargeComponents

\* A run that returned one component and discarded another.
C2_Witness ==
    /\ tpc = "done"
    /\ paths # <<>>
    /\ PathPixels # skeleton

Adjacent(p, q) == Chebyshev(p, q) = 1

\* C3 as stated: consecutive points of every returned path are 8-adjacent.
C3_Original ==
    tpc = "done" =>
        \A k \in 1 .. Len(paths) :
            \A n \in 1 .. Len(paths[k]) - 1 : Adjacent(paths[k][n], paths[k][n + 1])

\* C3 amended: in every returned path of either tracer, every point after the
\* first is 8-adjacent to some earlier point of the same path (the order is the
\* traversal order: consecutive points may jump between branches).
C3_AdjacentToEarlier ==
    tpc = "done" =>
        \A k \in 1 .. Len(paths) :
            \A n \in 2 .. Len(paths[k]) :
                \E e \in 1 .. n - 1 : Adjacent(paths[k][e], paths[k][n])

HasJump(pth) == \E n \in 1 .. Len(pth) - 1 : ~Adjacent(pth[n], pth[n + 1])

\* Both tracers reach a returned path whose consecutive points jump.
C3_Witness ==
    /\ tpc = "done"
    /\ \E k \in 1 .. Len(paths) : HasJump(paths[k])

\* C4: every returned path holds exactly the pixels of one whole 8-connected
\* component; two returned pixels share a path iff a chain of 8-adjacent
\* foreground pixels links them; no returned path is empty; an all-background
\* mask returns the empty collection.
C4_WholeComponents ==
    tpc = "done" =>
        LET comps == Components(skeleton)
        IN /\ \A k \in 1 .. Len(paths) :
                 /\ paths[k] # <<>>
                 /\ SeqSet(paths[k]) \in comps
           /\ \A a, b \in 1 .. Len(paths) :
                 a # b => SeqSet(paths[a]) \cap SeqSet(paths[b]) = {}
           /\ (skeleton = {} => paths = <<>>)

\* Two components of different sizes, each returned as one whole path.
C4_Witness ==
    /\ tpc = "done"
    /\ Len(paths) = 2
    /\ Len(paths[1]) # Len(paths[2])

\* ------------------------------------------------------------- greedy pairing
\* (x1 - x2)**2 + (y1 - y2)**2: the square of the distance the code compares.
\* The coordinates are integers and np.sqrt is monotone, so comparing the
\* distances is comparing their squares.
Dist2(p, q) == (p[1] - q[1]) * (p[1] - q[1]) + (p[2] - q[2]) * (p[2] - q[2])

\* No threshold at the start of the inner loop: min_dist = infinity.
StartMinDist2Unbounded(maxd) == maxd * maxd + W * W + H * H + 1

\* min_dist = max_dist, as a squared distance.
StartMinDist2(maxd) == maxd * maxd

\* The comparison taken non-strict: dist <= min_dist.
CloserOrEqual(d2, m2) == d2 <= m2

\* if dist < min_dist
Closer(d2, m2) == d2 < m2

\* The inner loop "for j in range(i + 1, n)" from index j on, carrying
\* <<closest, min_dist squared>>.
RECURSIVE ScanClosest(_, _, _, _, _)
ScanClosest(eps, usd, i, j, best) ==
    IF j >= Len(eps) THEN best
    ELSE IF j \in usd THEN ScanClosest(eps, usd, i, j + 1, best)
    ELSE LET d2 == Dist2(eps[i + 1], eps[j + 1])
         IN IF Closer(d2, best[2])
            THEN ScanClosest(eps, usd, i, j + 1, <<j, d2>>)
            ELSE ScanClosest(eps, usd, i, j + 1, best)

\* The inner loop started one index late: range(i + 2, n).
ClosestSkippingNext(eps, usd, i, maxd) ==
    ScanClosest(eps, usd, i, i + 2, <<-1, StartMinDist2(maxd)>>)[1]

\* closest after the inner loop of outer index i; -1 if none.
Closest(eps, usd, i, maxd) ==
    ScanClosest(eps, usd, i, i + 1, <<-1, StartMinDist2(maxd)>>)[1]

\* Only used.add(i): the partner left unmarked.
MarkUsedFirstOnly(usd, i, c) == usd \cup {i}

\* used.add(i); used.add(closest)
MarkUsed(usd, i, c) == usd \cup {i, c}

EndpointLists == UNION {[1 .. n -> Pixels] : n \in 0 .. MaxEndpoints}

PairInit ==
    /\ endpoints \in EndpointLists
    /\ max_dist \in 0 .. MaxGap
    /\ pi = 0
    /\ used = {}
    /\ connections = <<>>
    /\ ppc = "start"

\* n < 2: return []
PairEarlyReturn ==
    /\ ppc = "start"
    /\ Len(endpoints) < 2
    /\ ppc' = "done"
    /\ UNCHANGED <<endpoints, max_dist, pi, used, connections>>
    /\ UNCHANGED notPair

\* connections = [], used = set(), enter the outer loop.
PairBegin ==
    /\ ppc = "start"
    /\ Len(endpoints) >= 2
    /\ ppc' = "loop"
    /\ UNCHANGED <<endpoints, max_dist, pi, used, connections>>
    /\ UNCHANGED notPair

\* if i in used: continue
PairSkip ==
    /\ ppc = "loop"
    /\ pi < Len(endpoints)
    /\ pi \in used
    /\ pi' = pi + 1
    /\ UNCHANGED <<endpoints, max_dist, used, connections, ppc>>
    /\ UNCHANGED notPair

\* The inner loop found a partner: record the connection, mark both.
PairMatch ==
    /\ ppc = "loop"
    /\ pi < Len(endpoints)
    /\ pi \notin used
    /\ LET c == Closest(endpoints, used, pi, max_dist)
       IN /\ c # -1
          /\ connections' = Append(connections, <<pi, c>>)
          /\ used' = MarkUsed(used, pi, c)
    /\ pi' = pi + 1
    /\ UNCHANGED <<endpoints, max_dist, ppc>>
    /\ UNCHANGED notPair

\* The inner loop found none: closest == -1.
PairNoMatch ==
    /\ ppc = "loop"
    /\ pi < Len(endpoints)
    /\ pi \notin used
    /\ Closest(endpoints, used, pi, max_dist) = -1
    /\ pi' = pi + 1
    /\ UNCHANGED <<endpoints, max_dist, used, connections, ppc>>
    /\ UNCHANGED notPair

\* return connections
PairReturn ==
    /\ ppc = "loop"
    /\ pi = Len(endpoints)
    /\ ppc' = "done"
    /\ UNCHANGED <<endpoints, max_dist, pi, used, connections>>
    /\ UNCHANGED notPair

PairNext ==
    \/ PairEarlyReturn
    \/ PairBegin
    \/ PairSkip
    \/ PairMatch
    \/ PairNoMatch
    \/ PairReturn

PairSpecInit == PairInit /\ TraceIdle /\ BridgeIdle /\ DecimIdle /\ FilterIdle /\ MergeIdle /\ SerialIdle /\ PipeIdle /\ RecIdle /\ SmoothIdle

SpecPair == PairSpecInit /\ [][PairNext]_vars

\* ------------------------------------------------------------- pairing claims
EndpointIndices == 0 .. Len(endpoints) - 1

ConnDist2(c) == Dist2(endpoints[c[1] + 1], endpoints[c[2] + 1])

\* C5: every connection joins two distinct endpoints (two different entries of
\* the list) whose distance is below max_dist; none joins endpoints that are
\* max_dist or more apart.
C5_BelowMaxDist ==
    \A k \in 1 .. Len(connections) :
        /\ connections[k][1] # connections[k][2]
        /\ connections[k][1] \in EndpointIndices
        /\ connections[k][2] \in EndpointIndices
        /\ ConnDist2(connections[k]) < max_dist * max_dist

\* A finished run that connected one pair and left an endpoint that lies
\* max_dist or farther from one of the paired ones.
C5_Witness ==
    /\ ppc = "done"
    /\ connections # <<>>
    /\ \E k \in EndpointIndices \ used :
          Dist2(endpoints[k + 1], endpoints[connections[1][1] + 1]) >= max_dist * max_dist

ConnIndices(c) == {c[1], c[2]}

\* C6: every endpoint index occurs in at most one connection, so at most
\* floor(n / 2) connections exist for n endpoints, and none when n < 2.
C6_PairedOnce ==
    /\ \A a, b \in 1 .. Len(connections) :
          a # b => ConnIndices(connections[a]) \cap ConnIndices(connections[b]) = {}
    /\ Len(connections) <= Len(endpoints) \div 2
    /\ (Len(endpoints) < 2 => connections = <<>>)

\* A finished run over three endpoints, all within max_dist of each other,
\* that returned exactly one connection.
C6_Witness ==
    /\ ppc = "done"
    /\ Len(endpoints) = 3
    /\ Len(connections) = 1
    /\ \A a, b \in 1 .. 3 : Dist2(endpoints[a], endpoints[b]) < max_dist * max_dist

\* The step that has just appended a connection <<i, j>>: j is a nearest one
\* among all endpoints other than i that were unmatched before the step and
\* closer than max_dist, whatever their index, and the lowest index among the
\* nearest.
PairedNearest ==
    Len(connections') > Len(connections) =>
        LET c == connections'[Len(connections')]
            cands == {k \in EndpointIndices \ (used \cup {c[1]}) :
                         Dist2(endpoints[c[1] + 1], endpoints[k + 1]) < max_dist * max_dist}
        IN /\ c[1] = pi
           /\ c[2] \in cands
           /\ \A k \in cands :
                 /\ ConnDist2(c) <= Dist2(endpoints[c[1] + 1], endpoints[k + 1])
                 /\ (ConnDist2(c) = Dist2(endpoints[c[1] + 1], endpoints[k + 1]) => c[2] <= k)

\* C7: whenever endpoint i is paired, its partner is a nearest endpoint among
\* all endpoints unmatched at that moment and closer than max_dist, including
\* those with an index below i; on equal distances the lowest index wins.
C7_NearestUnmatched == [][PairedNearest]_vars

\* A pairing made while an endpoint of smaller index was still unmatched.
C7_Witness ==
    /\ ppc = "done"
    /\ \E k \in 1 .. Len(connections) :
          \E u \in EndpointIndices \ used : u < connections[k][1]

\* ------------------------------------------------------------- bridging pipeline
\* Width and height of the masks of the bridging scenario.
BridgeW == 28
BridgeH == 3

BridgePixels == (0 .. BridgeW - 1) \X (0 .. BridgeH - 1)

\* The value of a foreground pixel of the 0/255 uint8 skeleton.
Foreground == 255

\* cv2.filter2D extrapolates the border by reflection without repeating the
\* edge pixel (BORDER_REFLECT_101), for a side of two or more pixels.
Reflect101(i, n) == IF i < 0 THEN -i ELSE IF i >= n THEN 2 * n - 2 - i ELSE i

\* kernel = [[0, 1, 0], [1, 1, 1], [0, 1, 0]]: the offsets of its ones,
\* the centre among them.
CrossKernel == {<<0, -1>>, <<-1, 0>>, <<0, 0>>, <<1, 0>>, <<0, 1>>}

SkelValue(m, p) == IF p \in m THEN Foreground ELSE 0

RECURSIVE SumValues(_, _, _)
SumValues(m, p, offs) ==
    IF offs = {} THEN 0
    ELSE LET o == CHOOSE x \in offs : TRUE
             q == <<Reflect101(p[1] + o[1], BridgeW), Reflect101(p[2] + o[2], BridgeH)>>
         IN SkelValue(m, q) + SumValues(m, p, offs \ {o})

\* The result of filter2D keeps the depth of its source (ddepth = -1), uint8:
\* the sum is saturated at 255.
SaturateU8(n) == IF n > 255 THEN 255 ELSE IF n < 0 THEN 0 ELSE n

\* neighbors = cv2.filter2D(skeleton, -1, kernel), at pixel p.
NeighborsAt(m, p) == SaturateU8(SumValues(m, p, CrossKernel))

\* endpoints[(skeleton > 0) & (neighbors == 255)] = 255
EndpointCandidates(m) == {p \in m : NeighborsAt(m, p) = 255}

Clamp(i, n) == IF i < 0 THEN 0 ELSE IF i >= n THEN n - 1 ELSE i

\* cv2.medianBlur(endpoints, 3): the median of the 3x3 window, the border
\* replicated; on a 0/255 mask it is 255 when five or more of the nine are.
MedianBlur3(m) ==
    {p \in BridgePixels :
        Cardinality({o \in (-1 .. 1) \X (-1 .. 1) :
            <<Clamp(p[1] + o[1], BridgeW), Clamp(p[2] + o[2], BridgeH)>> \in m}) >= 5}

\* A blob within one row or one column: its contour encloses no area, M["m00"]
\* is 0 and the blob yields no endpoint.
FlatBlob(C) ==
    \/ \A p, q \in C : p[1] = q[1]
    \/ \A p, q \in C : p[2] = q[2]

InBox(p, C) ==
    /\ \E q \in C : q[1] <= p[1]
    /\ \E q \in C : q[1] >= p[1]
    /\ \E q \in C : q[2] <= p[2]
    /\ \E q \in C : q[2] >= p[2]

\* cv2.findContours (external contours) and the centroid of each from
\* cv2.moments.  One contour per 8-connected blob; a flat blob is skipped
\* (m00 == 0); of any other blob the model fixes neither the order of the
\* contours nor the centroid: it may be skipped or yield any pixel of its
\* bounding box, in any order.
ClusterOutcomes(m) ==
    LET blobs == {Component(m, p) : p \in m}
        solid == {C \in blobs : ~FlatBlob(C)}
    IN UNION {
         {s \in [1 .. Cardinality(S) -> BridgePixels] :
             \E f \in [1 .. Cardinality(S) -> S] :
                 /\ \A a, b \in 1 .. Cardinality(S) : a # b => f[a] # f[b]
                 /\ \A k \in 1 .. Cardinality(S) : InBox(s[k], f[k])}
         : S \in SUBSET solid}

\* find_close_endpoints as a whole: the outer loop from index i on.
RECURSIVE FindFrom(_, _, _, _, _)
FindFrom(eps, maxd, i, usd, conns) ==
    IF i >= Len(eps) THEN conns
    ELSE IF i \in usd THEN FindFrom(eps, maxd, i + 1, usd, conns)
    ELSE LET c == Closest(eps, usd, i, maxd)
         IN IF c # -1
            THEN FindFrom(eps, maxd, i + 1, MarkUsed(usd, i, c), Append(conns, <<i, c>>))
            ELSE FindFrom(eps, maxd, i + 1, usd, conns)

FindCloseEndpoints(eps, maxd) ==
    IF Len(eps) < 2 THEN <<>> ELSE FindFrom(eps, maxd, 0, {}, <<>>)

\* cv2.line(result, (x1, y1), (x2, y2), 255, 2): the pixels within one pixel
\* of the segment from a to b.
NearSegment(p, a, b) ==
    LET len2 == Dist2(a, b)
        dot == (p[1] - a[1]) * (b[1] - a[1]) + (p[2] - a[2]) * (b[2] - a[2])
        cross == (p[1] - a[1]) * (b[2] - a[2]) - (p[2] - a[2]) * (b[1] - a[1])
    IN IF len2 = 0 \/ dot <= 0 THEN Dist2(p, a) <= 1
       ELSE IF dot >= len2 THEN Dist2(p, b) <= 1
       ELSE cross * cross <= len2

LinePixels(a, b) == {p \in BridgePixels : NearSegment(p, a, b)}

\* One dilation and one erosion by the 3x3 square; pixels outside the image
\* neither add to a dilation nor hold back an erosion.
Dilate3(m) == {p \in BridgePixels : \E q \in m : Chebyshev(p, q) <= 1}

Erode3(m) == {p \in m : \A q \in BridgePixels : Chebyshev(p, q) <= 1 => q \in m}

\* cv2.morphologyEx(result, cv2.MORPH_CLOSE, kernel, iterations=2)
Close3Twice(m) == Erode3(Erode3(Dilate3(Dilate3(m))))

\* connect_endpoints: draw every connection, then close.
ConnectEndpoints(m, eps, conns) ==
    Close3Twice(m \cup UNION {LinePixels(eps[conns[k][1] + 1], eps[conns[k][2] + 1])
                                : k \in 1 .. Len(conns)})

\* skeleton_to_contours keeps a component with len(points) > 5.
ContourMinPoints == 5

\* The "while stack" loop of skeleton_to_contours, to exhaustion.
RECURSIVE FillStack(_, _, _, _)
FillStack(m, vis, stack, pts) ==
    IF stack = <<>> THEN <<pts, vis>>
    ELSE LET c == stack[Len(stack)]
             pushed == PushedNeighbors(c, m, vis, BridgeW, BridgeH)
         IN FillStack(m, MarkPushed(vis, pushed),
                      SubSeq(stack, 1, Len(stack) - 1) \o pushed, Append(pts, c))

\* The row-major scan of skeleton_to_contours from position s on.
RECURSIVE ContoursFrom(_, _, _, _)
ContoursFrom(m, s, vis, acc) ==
    IF s >= BridgeW * BridgeH THEN acc
    ELSE LET p == <<s % BridgeW, s \div BridgeW>>
         IN IF p \notin m \/ p \in vis THEN ContoursFrom(m, s + 1, vis, acc)
            ELSE LET r == FillStack(m, vis \cup {p}, <<p>>, <<>>)
                 IN ContoursFrom(m, s + 1, r[2],
                        IF Len(r[1]) > ContourMinPoints THEN Append(acc, r[1]) ELSE acc)

SkeletonToContours(m) == ContoursFrom(m, 0, {}, <<>>)

\* The scenario masks: two horizontal one-pixel strokes in the same row, the
\* right end of the first 15 pixels from the left end of the second.
StrokeLens == 6 .. 7

TwoStrokes(row, la, lb) ==
    {<<x, row>> : x \in 0 .. la - 1} \cup {<<x, row>> : x \in la + 14 .. la + 13 + lb}

BridgeInit ==
    /\ \E row \in 0 .. BridgeH - 1 : \E la, lb \in StrokeLens :
          bskel = TwoStrokes(row, la, lb)
    /\ bgap \in {10, 20, 40}
    /\ bcand = {}
    /\ bends = <<>>
    /\ bconns = <<>>
    /\ bfixed = {}
    /\ bpaths = <<>>
    /\ bpc = "count"

\* extract_endpoints, the neighbour count and its test.
BridgeCount ==
    /\ bpc = "count"
    /\ bcand' = EndpointCandidates(bskel)
    /\ bpc' = "cluster"
    /\ UNCHANGED <<bskel, bgap, bends, bconns, bfixed, bpaths>>
    /\ UNCHANGED notBridge

\* extract_endpoints, the median blur and the centroids of the blobs left.
BridgeCluster ==
    /\ bpc = "cluster"
    /\ bends' \in ClusterOutcomes(MedianBlur3(bcand))
    /\ bpc' = "find"
    /\ UNCHANGED <<bskel, bgap, bcand, bconns, bfixed, bpaths>>
    /\ UNCHANGED notBridge

\* connections = find_close_endpoints(endpoints, max_dist)
BridgeFind ==
    /\ bpc = "find"
    /\ bconns' = FindCloseEndpoints(bends, bgap)
    /\ bpc' = "connect"
    /\ UNCHANGED <<bskel, bgap, bcand, bends, bfixed, bpaths>>
    /\ UNCHANGED notBridge

\* if connections: skeleton = connect_endpoints(skeleton, connections, ...)
BridgeConnect ==
    /\ bpc = "connect"
    /\ bfixed' = IF bconns # <<>> THEN ConnectEndpoints(bskel, bends, bconns) ELSE bskel
    /\ bpc' = "trace"
    /\ UNCHANGED <<bskel, bgap, bcand, bends, bconns, bpaths>>
    /\ UNCHANGED notBridge

\* contours = skeleton_to_contours(skeleton)
BridgeTrace ==
    /\ bpc = "trace"
    /\ bpaths' = SkeletonToContours(bfixed)
    /\ bpc' = "done"
    /\ UNCHANGED <<bskel, bgap, bcand, bends, bconns, bfixed>>
    /\ UNCHANGED notBridge

BridgeNext ==
    \/ BridgeCount
    \/ BridgeCluster
    \/ BridgeFind
    \/ BridgeConnect
    \/ BridgeTrace

BridgeSpecInit == BridgeInit /\ TraceIdle /\ PairIdle /\ DecimIdle /\ FilterIdle /\ MergeIdle /\ SerialIdle /\ PipeIdle /\ RecIdle /\ SmoothIdle

SpecBridge == BridgeSpecInit /\ [][BridgeNext]_vars

\* ------------------------------------------------------------- bridging claims
\* The foreground neighbours of p under the cross-shaped kernel.
CrossNeighbors(m, p) == {q \in m : Dist2(p, q) = 1}

\* C8: two strokes with their nearest ends 15 pixels apart come out of the
\* bridging pipeline as 1 path when the maximum gap is 20 and as 2 paths when
\* it is 10.
C8_BridgedWithinGap ==
    bpc = "done" =>
        /\ (bgap = 20 => Len(bpaths) = 1)
        /\ (bgap = 10 => Len(bpaths) = 2)

\* C9: after the neighbour count, a foreground pixel is an endpoint candidate
\* exactly when it has exactly one foreground neighbour; no foreground pixel
\* with two or more foreground neighbours is a candidate.
C9_CandidateIffOneNeighbor ==
    bpc \notin {"idle", "count"} =>
        \A p \in bskel : p \in bcand <=> Cardinality(CrossNeighbors(bskel, p)) = 1

\* ------------------------------------------------------------- distance decimation
\* The distance measured from the previous input point, not the last kept one.
LastKeptPrevious(kept, pts, i) == pts[i - 1]

\* simplified[-1], the last point kept so far (i is the 1-based loop position).
LastKept(kept, pts, i) == kept[Len(kept)]

\* The loop "for i in range(1, len(points))" from position i on: a point is
\* kept if dist >= tolerance, compared here as squares.
RECURSIVE DecimateFrom(_, _, _, _)
DecimateFrom(pts, tol2, i, kept) ==
    IF i > Len(pts) THEN kept
    ELSE IF Dist2(pts[i], LastKept(kept, pts, i)) >= tol2
         THEN DecimateFrom(pts, tol2, i + 1, Append(kept, pts[i]))
         ELSE DecimateFrom(pts, tol2, i + 1, kept)

\* simplify_path_points (minLen 3) and reduce_point_density (minLen 2).
Decimate(pts, tol2, minLen) ==
    IF Len(pts) < minLen THEN pts ELSE DecimateFrom(pts, tol2, 2, <<pts[1]>>)

\* "if len(points) < 3" of simplify_path_points, "< 2" of reduce_point_density.
DecimMinLens == {2, 3}

PathInputs == UNION {[1 .. n -> Pixels] : n \in 0 .. MaxPathLen}

DecimInit ==
    /\ fin \in PathInputs
    /\ ftol2 \in 0 .. MaxTolSq
    /\ fmin \in DecimMinLens
    /\ fonce = <<>>
    /\ ftwice = <<>>
    /\ fpc = "start"

\* The filter applied to the input path.
DecimOnce ==
    /\ fpc = "start"
    /\ fonce' = Decimate(fin, ftol2, fmin)
    /\ fpc' = "once"
    /\ UNCHANGED <<fin, ftol2, fmin, ftwice>>
    /\ UNCHANGED notDecim

\* The filter applied again, to its own result, with the same tolerance.
DecimTwice ==
    /\ fpc = "once"
    /\ ftwice' = Decimate(fonce, ftol2, fmin)
    /\ fpc' = "twice"
    /\ UNCHANGED <<fin, ftol2, fmin, fonce>>
    /\ UNCHANGED notDecim

DecimNext ==
    \/ DecimOnce
    \/ DecimTwice

DecimSpecInit == DecimInit /\ TraceIdle /\ PairIdle /\ BridgeIdle /\ FilterIdle /\ MergeIdle /\ SerialIdle /\ PipeIdle /\ RecIdle /\ SmoothIdle

SpecDecim == DecimSpecInit /\ [][DecimNext]_vars

\* ------------------------------------------------------------- decimation claims
\* C10: decimation is idempotent: applied twice with the same tolerance it
\* returns the same point sequence as applied once.
C10_DecimateIdempotent == fpc = "twice" => ftwice = fonce

\* The filter applied twice to a path of which the first pass dropped a point
\* and kept two or more.
C10_Witness ==
    /\ fpc = "twice"
    /\ Len(fonce) >= 2
    /\ Len(fonce) < Len(fin)

\* C11: for a path of three or more points, decimation returns a path that
\* starts with the input's first point and ends with the input's last point.
C11_EndsPreserved ==
    (fpc \in {"once", "twice"} /\ Len(fin) >= 3) =>
        /\ fonce # <<>>
        /\ fonce[1] = fin[1]
        /\ fonce[Len(fonce)] = fin[Len(fin)]

\* ------------------------------------------------------- path filters
\* Longest path handed to a smoothing or simplification filter, and the
\* largest Chaikin iteration count.
MaxFilterLen == 4
MaxIter == 2

\* The points the filter inputs are drawn from.
FilterPoints == (0 .. 2) \X (0 .. 1)

FilterInputs == UNION {[1 .. n -> FilterPoints] : n \in 0 .. MaxFilterLen}

Scale(p, k) == <<p[1] * k, p[2] * k>>

\* Classical corner cutting, which does not re-insert the end points.
ChaikinFirstCut(pts) == <<>>

\* chaikin_step starts the new point list with pts[0] ...
ChaikinFirst(pts) == <<Scale(pts[1], 4)>>

\* ... and closes it with pts[-1].
ChaikinLast(pts) == <<Scale(pts[Len(pts)], 4)>>

\* The loop of chaikin_step: q and r of every edge, in edge order.  All
\* coordinates of a step are kept as integers, multiplied by 4.
CutCorners(pts) ==
    [j \in 1 .. 2 * (Len(pts) - 1) |->
        LET p0 == pts[(j + 1) \div 2]
            p1 == pts[(j + 1) \div 2 + 1]
        IN  IF j % 2 = 1
            THEN <<3 * p0[1] + p1[1], 3 * p0[2] + p1[2]>>
            ELSE <<p0[1] + 3 * p1[1], p0[2] + 3 * p1[2]>>]

chaikin_step(pts) == ChaikinFirst(pts) \o CutCorners(pts) \o ChaikinLast(pts)

RECURSIVE ChaikinIterate(_, _)
ChaikinIterate(pts, k) ==
    IF k = 0 THEN pts ELSE ChaikinIterate(chaikin_step(pts), k - 1)

RECURSIVE Pow4(_)
Pow4(k) == IF k = 0 THEN 1 ELSE 4 * Pow4(k - 1)

\* chaikin_smooth: the pair <<points, denominator of their coordinates>>.
chaikin_smooth(pts, iterations) ==
    IF Len(pts) < 4 \/ iterations <= 0
    THEN <<pts, 1>>
    ELSE <<ChaikinIterate(pts, iterations), Pow4(iterations)>>

\* smooth_path: the moving average over the window clipped to the path;
\* int(np.mean(...)) truncates, and the coordinates are not negative.
RECURSIVE SumCoord(_, _, _, _)
SumCoord(pts, lo, hi, c) ==
    IF lo > hi THEN 0 ELSE pts[lo][c] + SumCoord(pts, lo + 1, hi, c)

WindowMean(pts, j, window) ==
    LET lo == Max2(1, j - window \div 2)
        hi == IF j + window \div 2 < Len(pts) THEN j + window \div 2 ELSE Len(pts)
    IN  <<SumCoord(pts, lo, hi, 1) \div (hi - lo + 1),
          SumCoord(pts, lo, hi, 2) \div (hi - lo + 1)>>

smooth_path(pts, window) ==
    IF Len(pts) < window
    THEN pts
    ELSE [j \in 1 .. Len(pts) |-> WindowMean(pts, j, window)]

\* Squared distances are kept exact, as fractions <<numerator, denominator>>.
RatLess(a, b) ==
    IF a[2] = b[2] THEN a[1] < b[1] ELSE a[1] * b[2] < b[1] * a[2]

RatLeq(a, b) ==
    IF a[2] = b[2] THEN a[1] <= b[1] ELSE a[1] * b[2] <= b[1] * a[2]

\* The distance from p to the segment a-b: the projection parameter is
\* clamped to [0, 1], and a chord of length zero gives the distance to a.
SegmentDist2(p, a, b) ==
    LET dx == b[1] - a[1]
        dy == b[2] - a[2]
        u == (p[1] - a[1]) * dx + (p[2] - a[2]) * dy
        len2 == dx * dx + dy * dy
        cross == (p[1] - a[1]) * dy - (p[2] - a[2]) * dx
    IN  IF dx = 0 /\ dy = 0 THEN <<Dist2(p, a), 1>>
        ELSE IF u <= 0 THEN <<Dist2(p, a), 1>>
        ELSE IF u >= len2 THEN <<Dist2(p, b), 1>>
        ELSE <<cross * cross, len2>>

\* point_to_line_dist of simplify_path_douglas.
point_to_line_dist(p, a, b) == SegmentDist2(p, a, b)

\* perpendicular_distance of ramer_douglas_pecker.
perpendicular_distance(p, a, b) == SegmentDist2(p, a, b)

\* ramer_douglas_pecker projects onto the normalised chord vector, which is
\* inexact on a chord that is not axis-parallel: there a comparison of two
\* equal distances can come out either way (rnd), unless the point is the
\* chord's start, whose distance is an exact zero.
Inexact(rnd, p, a, b) == rnd /\ a[1] # b[1] /\ a[2] # b[2] /\ p # a

Exceeds(d, m, tie) == IF tie THEN RatLeq(m, d) ELSE RatLess(m, d)

\* A simplifier that forgets the far end of a chord it keeps.
DouglasKeepStart(pts, s, e) == <<pts[s]>>

\* return [pts[start], pts[end]]
DouglasKeepEnds(pts, s, e) == <<pts[s], pts[e]>>

\* The scan for the farthest interior point: best is <<max_idx, max_dist>>.
RECURSIVE FarthestDouglas(_, _, _, _, _)
FarthestDouglas(pts, s, e, i, best) ==
    IF i >= e THEN best
    ELSE LET dist == point_to_line_dist(pts[i], pts[s], pts[e])
         IN  FarthestDouglas(pts, s, e, i + 1,
                 IF RatLess(best[2], dist) THEN <<i, dist>> ELSE best)

RECURSIVE recursive_simplify(_, _, _, _)
recursive_simplify(pts, s, e, tol2) ==
    IF e - s <= 1 THEN <<pts[s]>>
    ELSE LET best == FarthestDouglas(pts, s, e, s + 1, <<s, <<0, 1>>>>)
         IN  IF RatLess(<<tol2, 1>>, best[2])
             THEN recursive_simplify(pts, s, best[1], tol2)
                      \o Tail(recursive_simplify(pts, best[1], e, tol2))
             ELSE DouglasKeepEnds(pts, s, e)

simplify_path_douglas(pts, tol2) ==
    IF Len(pts) <= 2 THEN pts ELSE recursive_simplify(pts, 1, Len(pts), tol2)

RECURSIVE FarthestRdp(_, _, _, _, _, _)
FarthestRdp(rnd, pts, s, e, i, best) ==
    IF i >= e THEN best
    ELSE LET d == perpendicular_distance(pts[i], pts[s], pts[e])
             tie == Inexact(rnd, pts[i], pts[s], pts[e])
         IN  FarthestRdp(rnd, pts, s, e, i + 1,
                 IF Exceeds(d, best[2], tie) THEN <<i, d>> ELSE best)

RECURSIVE rdp(_, _, _, _, _)
rdp(rnd, pts, s, e, eps2) ==
    IF e <= s + 1 THEN <<pts[s]>>
    ELSE LET best == FarthestRdp(rnd, pts, s, e, s + 1, <<s, <<0, 1>>>>)
             tie == best[1] # s /\ Inexact(rnd, pts[best[1]], pts[s], pts[e])
         IN  IF Exceeds(best[2], <<eps2, 1>>, tie)
             THEN LET left == rdp(rnd, pts, s, best[1], eps2)
                      right == rdp(rnd, pts, best[1], e, eps2)
                  IN  SubSeq(left, 1, Len(left) - 1) \o right
             ELSE <<pts[s], pts[e]>>

ramer_douglas_pecker(rnd, pts, eps2) ==
    IF Len(pts) < 3 THEN pts ELSE rdp(rnd, pts, 1, Len(pts), eps2)

\* optimize_contour measures the distance to the infinite line through the
\* chord: |cross| / line_len.
LineDist2(p, a, b) ==
    LET dx == b[1] - a[1]
        dy == b[2] - a[2]
        cross == dx * (a[2] - p[2]) - dy * (a[1] - p[1])
    IN  <<cross * cross, dx * dx + dy * dy>>

RECURSIVE FarthestLine(_, _, _, _, _)
FarthestLine(pts, s, e, i, best) ==
    IF i >= e THEN best
    ELSE LET dist == LineDist2(pts[i], pts[s], pts[e])
         IN  FarthestLine(pts, s, e, i + 1,
                 IF RatLess(best[2], dist) THEN <<i, dist>> ELSE best)

RECURSIVE douglas_peucker(_, _, _, _)
douglas_peucker(s, e, pts, eps2) ==
    IF e - s < 2 THEN <<pts[s], pts[e]>>
    ELSE IF pts[s] = pts[e] THEN <<pts[s]>>
    ELSE LET best == FarthestLine(pts, s, e, s + 1, <<s, <<0, 1>>>>)
         IN  IF RatLess(<<eps2, 1>>, best[2])
             THEN douglas_peucker(s, best[1], pts, eps2)
                      \o douglas_peucker(best[1], e, pts, eps2)
             ELSE <<pts[s], pts[e]>>

\* A guard that hands every short contour back as it came.
ShortContourKept(pts) == pts

\* return np.array(points) if len(points) > 1 else np.array([])
ShortContour(pts) == IF Len(pts) > 1 THEN pts ELSE <<>>

optimize_contour(pts, eps2) ==
    IF Len(pts) < 3
    THEN ShortContour(pts)
    ELSE douglas_peucker(1, Len(pts), pts, eps2)

\* simplify_path_points of clean_smooth.py: decimation, unchanged below 3.
simplify_path_points(pts, tol2) == Decimate(pts, tol2, 3)

FilterNames ==
    {"chaikin_smooth", "smooth_path", "simplify_path_points",
     "simplify_path_douglas", "ramer_douglas_pecker", "optimize_contour"}

\* Squared epsilons: zero, small ones, and one above the squared diagonal
\* of FilterPoints.
FilterTolSqs == {0, 1, 2, 6}

FilterParams(name) ==
    CASE name = "chaikin_smooth" -> 0 .. MaxIter
      [] name = "smooth_path" -> {3, 5}
      [] OTHER -> FilterTolSqs

FilterInit ==
    /\ gin \in FilterInputs
    /\ gname \in FilterNames
    /\ gparam \in FilterParams(gname)
    /\ ground \in (IF gname = "ramer_douglas_pecker" THEN BOOLEAN ELSE {FALSE})
    /\ gout = <<>>
    /\ gden = 1
    /\ gfail = FALSE
    /\ gfailx = {}
    /\ gfaily = {}
    /\ gpc = "start"

FilterReturn(out, den) ==
    /\ gout' = out
    /\ gden' = den
    /\ gpc' = "done"
    /\ UNCHANGED <<gin, gname, gparam, ground, gfail, gfailx, gfaily>>
    /\ UNCHANGED notFilter

ApplyChaikin ==
    /\ gpc = "start"
    /\ gname = "chaikin_smooth"
    /\ FilterReturn(chaikin_smooth(gin, gparam)[1], chaikin_smooth(gin, gparam)[2])

ApplySmoothPath ==
    /\ gpc = "start"
    /\ gname = "smooth_path"
    /\ FilterReturn(smooth_path(gin, gparam), 1)

ApplySimplifyPoints ==
    /\ gpc = "start"
    /\ gname = "simplify_path_points"
    /\ FilterReturn(simplify_path_points(gin, gparam), 1)

ApplyDouglas ==
    /\ gpc = "start"
    /\ gname = "simplify_path_douglas"
    /\ FilterReturn(simplify_path_douglas(gin, gparam), 1)

ApplyRdp ==
    /\ gpc = "start"
    /\ gname = "ramer_douglas_pecker"
    /\ FilterReturn(ramer_douglas_pecker(ground, gin, gparam), 1)

ApplyOptimize ==
    /\ gpc = "start"
    /\ gname = "optimize_contour"
    /\ FilterReturn(optimize_contour(gin, gparam), 1)

FilterNext ==
    \/ ApplyChaikin
    \/ ApplySmoothPath
    \/ ApplySimplifyPoints
    \/ ApplyDouglas
    \/ ApplyRdp
    \/ ApplyOptimize

FilterSpecInit == FilterInit /\ TraceIdle /\ PairIdle /\ BridgeIdle /\ DecimIdle /\ MergeIdle /\ SerialIdle /\ PipeIdle /\ RecIdle /\ SmoothIdle

SpecFilter == FilterSpecInit /\ [][FilterNext]_vars

\* C12: chaikin_smooth returns a path that starts with the input's first
\* point and ends with the input's last point, for every iteration count.
C12_ChaikinKeepsEnds ==
    (gpc = "done" /\ gname = "chaikin_smooth" /\ gin # <<>>) =>
        /\ gout # <<>>
        /\ gout[1] = Scale(gin[1], gden)
        /\ gout[Len(gout)] = Scale(gin[Len(gin)], gden)

C12_Witness ==
    /\ gpc = "done"
    /\ gname = "chaikin_smooth"
    /\ gparam = 2
    /\ Len(gin) >= 4
    /\ Len(gout) > Len(gin)
    /\ gout[2] # gout[1]
    /\ gout[Len(gout) - 1] # gout[Len(gout)]

DouglasPeuckerNames == {"simplify_path_douglas", "ramer_douglas_pecker"}

\* C13: Douglas-Peucker simplification with epsilon = 0 returns the input
\* path unchanged, the same points in the same order.
C13_ZeroEpsilonIdentity ==
    (gpc = "done" /\ gname \in DouglasPeuckerNames /\ gparam = 0) => gout = gin

Min2(a, b) == IF a <= b THEN a ELSE b

RECURSIVE MaxCoord(_, _, _)
MaxCoord(pts, i, c) ==
    IF i = Len(pts) THEN pts[i][c] ELSE Max2(pts[i][c], MaxCoord(pts, i + 1, c))

RECURSIVE MinCoord(_, _, _)
MinCoord(pts, i, c) ==
    IF i = Len(pts) THEN pts[i][c] ELSE Min2(pts[i][c], MinCoord(pts, i + 1, c))

\* The squared diagonal of the bounding box of a non-empty path.
Diagonal2(pts) ==
    (MaxCoord(pts, 1, 1) - MinCoord(pts, 1, 1)) * (MaxCoord(pts, 1, 1) - MinCoord(pts, 1, 1))
        + (MaxCoord(pts, 1, 2) - MinCoord(pts, 1, 2)) * (MaxCoord(pts, 1, 2) - MinCoord(pts, 1, 2))

\* C14: for a path of two or more points, Douglas-Peucker simplification with
\* an epsilon larger than the bounding diagonal of the path returns exactly
\* the input's first point followed by the input's last point.
C14_LargeEpsilonEndpoints ==
    (/\ gpc = "done"
     /\ gname \in DouglasPeuckerNames
     /\ Len(gin) >= 2
     /\ gparam > Diagonal2(gin)) =>
        gout = <<gin[1], gin[Len(gin)]>>

C14_Witness ==
    /\ gpc = "done"
    /\ gname = "simplify_path_douglas"
    /\ Len(gin) = 4
    /\ gparam > Diagonal2(gin)
    /\ Diagonal2(gin) = 5
    /\ gin[2] # gin[1]
    /\ Len(gout) = 2

\* The inputs below a filter's minimum viable length.
TooShort(name, pts, param) ==
    CASE name = "smooth_path" -> Len(pts) < param
      [] name = "chaikin_smooth" -> Len(pts) < 4
      [] name = "simplify_path_points" -> Len(pts) < 3
      [] name = "simplify_path_douglas" -> Len(pts) <= 2
      [] name = "optimize_contour" -> Len(pts) < 3
      [] OTHER -> FALSE

\* C18: every filter returns its input path unchanged when the path is
\* shorter than the filter's minimum viable length.
C18_ShortInputUnchanged ==
    (gpc = "done" /\ TooShort(gname, gin, gparam)) => (gout = gin /\ gden = 1)

\* ---------------------------------------------------------- curve fits
\* The numerical fits (splprep/splev, interp1d, polyfit) are operations that
\* either raise or yield some integer coordinate; the coordinates a fit can
\* yield are drawn from FitValues, which no input coordinate belongs to.
FitPoints == (0 .. 1) \X {0}

FitValues == {5}

FitInputs == UNION {[1 .. n -> FitPoints] : n \in 0 .. MaxFilterLen}

FitNames == {"fit_smooth_curve", "curve_fitting_smooth", "savitzky_golay_smooth"}

\* n_points=None
DefaultNPoints == 0 - 1

FitParams(name) ==
    CASE name = "curve_fitting_smooth" -> {DefaultNPoints} \cup (2 .. MaxFilterLen + 1)
      [] name = "savitzky_golay_smooth" -> {1, 3}
      [] OTHER -> {0}

\* A handler that gives up the path when the fit raises.
FitFallbackEmpty(pts) == <<>>

\* except: return points
FitFallback(pts) == pts

\* A handler that resets the whole point when one coordinate fit raises.
CoordFallbackBoth(raised, other, fitted, original) ==
    IF raised \/ other THEN original ELSE fitted

\* except: smoothed_x = points[i][0] (and likewise for y)
CoordFallback(raised, other, fitted, original) ==
    IF raised THEN original ELSE fitted

FitInit ==
    /\ gin \in FitInputs
    /\ gname \in FitNames
    /\ gparam \in FitParams(gname)
    /\ ground = FALSE
    /\ gout = <<>>
    /\ gden = 1
    /\ gfail = FALSE
    /\ gfailx = {}
    /\ gfaily = {}
    /\ gpc = "start"

FitReturn(out, raised, rx, ry) ==
    /\ gout' = out
    /\ gfail' = raised
    /\ gfailx' = rx
    /\ gfaily' = ry
    /\ gpc' = "done"
    /\ UNCHANGED <<gin, gname, gparam, ground, gden>>
    /\ UNCHANGED notFilter

FitSmoothCurve ==
    /\ gpc = "start"
    /\ gname = "fit_smooth_curve"
    /\ IF Len(gin) < 4
       THEN FitReturn(gin, FALSE, {}, {})
       ELSE \E raised \in BOOLEAN, fitted \in [1 .. Len(gin) -> FitValues \X FitValues] :
                FitReturn(IF raised THEN FitFallback(gin) ELSE fitted, raised, {}, {})

CurveFittingSmooth ==
    /\ gpc = "start"
    /\ gname = "curve_fitting_smooth"
    /\ IF Len(gin) < 4
       THEN FitReturn(gin, FALSE, {}, {})
       ELSE LET n_points == IF gparam = DefaultNPoints THEN Len(gin) ELSE gparam
            IN  \E raised \in BOOLEAN, fitted \in [1 .. n_points -> FitValues \X FitValues] :
                    FitReturn(IF raised THEN FitFallback(gin) ELSE fitted, raised, {}, {})

SavitzkyGolaySmooth ==
    /\ gpc = "start"
    /\ gname = "savitzky_golay_smooth"
    /\ IF Len(gin) < gparam
       THEN FitReturn(gin, FALSE, {}, {})
       ELSE \E rx \in SUBSET (1 .. Len(gin)), ry \in SUBSET (1 .. Len(gin)),
               fitted \in [1 .. Len(gin) -> FitValues \X FitValues] :
                FitReturn([i \in 1 .. Len(gin) |->
                              <<CoordFallback(i \in rx, i \in ry, fitted[i][1], gin[i][1]),
                                CoordFallback(i \in ry, i \in rx, fitted[i][2], gin[i][2])>>],
                          FALSE, rx, ry)

FitNext ==
    \/ FitSmoothCurve
    \/ CurveFittingSmooth
    \/ SavitzkyGolaySmooth

FitSpecInit == FitInit /\ TraceIdle /\ PairIdle /\ BridgeIdle /\ DecimIdle /\ MergeIdle /\ SerialIdle /\ PipeIdle /\ RecIdle /\ SmoothIdle

SpecFit == FitSpecInit /\ [][FitNext]_vars

\* The output has as many points as the input, or the requested n_points
\* when curve_fitting_smooth succeeds.
FitLengthKept ==
    \/ Len(gout) = Len(gin)
    \/ /\ gname = "curve_fitting_smooth"
       /\ ~gfail
       /\ gparam # DefaultNPoints
       /\ Len(gout) = gparam

\* C20: when the whole-path fit raises, fit_smooth_curve and
\* curve_fitting_smooth return the input path; when a per-point polynomial fit
\* raises in savitzky_golay_smooth, exactly that coordinate of that point keeps
\* its input value; the output always has the input's number of points (or
\* n_points after a successful curve_fitting_smooth).
C20_FitFailureFallsBack ==
    gpc = "done" =>
        /\ gfail => gout = gin
        /\ FitLengthKept
        /\ gname = "savitzky_golay_smooth" =>
              \A i \in 1 .. Len(gin) :
                  /\ i \in gfailx => gout[i][1] = gin[i][1]
                  /\ i \in gfaily => gout[i][2] = gin[i][2]
                  /\ (Len(gin) >= gparam /\ i \notin gfailx) => gout[i][1] \in FitValues
                  /\ (Len(gin) >= gparam /\ i \notin gfaily) => gout[i][2] \in FitValues

C20_Witness ==
    /\ gpc = "done"
    /\ gname = "savitzky_golay_smooth"
    /\ gparam = 3
    /\ Len(gin) = 4
    /\ gfailx = {2}
    /\ gfaily = {}
    /\ gout[2] = <<gin[2][1], 5>>

\* --------------------------------------------------------- path merging
\* Largest collection handed to the merger.
MaxPaths == 3

\* The points, path lengths and gap tolerances the merger inputs are drawn from.
MergePoints == (0 .. 1) \X {0}

MergeLens == 1 .. 2

MergeGaps == 0 .. 2

MergePaths == UNION {[1 .. n -> MergePoints] : n \in MergeLens}

MergeInputs == UNION {[1 .. n -> MergePaths] : n \in 0 .. MaxPaths}

LastOf(p) == p[Len(p)]

\* A gap test that accepts touching ends.
WithinGapInclusive(d2, gap) == d2 <= gap * gap

\* d1 < max_gap, on squared distances.
WithinGap(d2, gap) == d2 < gap * gap

\* A pass that joins the other path back to front.
MergeStepReversed(ps, gap, j, st) ==
    IF j \in st[2] THEN st
    ELSE LET other == ps[j]
             rev == [k \in 1 .. Len(other) |-> other[Len(other) + 1 - k]]
             d1 == Dist2(LastOf(st[1]), Head(other))
             d2 == Dist2(Head(st[1]), LastOf(other))
         IN  IF WithinGap(d1, gap) \/ WithinGap(d2, gap)
             THEN <<IF d1 < d2 THEN st[1] \o rev ELSE rev \o st[1],
                    st[2] \cup {j}, TRUE>>
             ELSE st

\* One pass of the inner loop body for index j, on the loop state
\* st = <<current, used, changed>>.
MergeStep(ps, gap, j, st) ==
    IF j \in st[2] THEN st
    ELSE LET other == ps[j]
             d1 == Dist2(LastOf(st[1]), Head(other))
             d2 == Dist2(Head(st[1]), LastOf(other))
         IN  IF WithinGap(d1, gap) \/ WithinGap(d2, gap)
             THEN <<IF d1 < d2 THEN st[1] \o other ELSE other \o st[1],
                    st[2] \cup {j}, TRUE>>
             ELSE st

\* The inner loop over j, from index j on (each loop state is bound to a
\* value before the next pass uses it).
RECURSIVE MergeInner(_, _, _, _)
MergeInner(ps, gap, j, st) ==
    IF j > Len(ps) THEN st
    ELSE CHOOSE r \in {MergeInner(ps, gap, j + 1, nxt) :
                           nxt \in {MergeStep(ps, gap, j, st)}} : TRUE

\* One pass of the outer loop body for index i, on the loop state
\* st = <<result, used, changed>>.
MergeOuterStep(ps, gap, i, st) ==
    IF i \in st[2] THEN st
    ELSE CHOOSE r \in {<<Append(st[1], inner[1]), inner[2], inner[3]>> :
                           inner \in {MergeInner(ps, gap, i + 1,
                                           <<ps[i], st[2] \cup {i}, st[3]>>)}} : TRUE

RECURSIVE MergeOuter(_, _, _, _)
MergeOuter(ps, gap, i, st) ==
    IF i > Len(ps) THEN st
    ELSE CHOOSE r \in {MergeOuter(ps, gap, i + 1, nxt) :
                           nxt \in {MergeOuterStep(ps, gap, i, st)}} : TRUE

\* One merge round: <<result, changed>>.
MergeRound(ps, gap) ==
    LET st == MergeOuter(ps, gap, 1, <<<<>>, {}, FALSE>>) IN <<st[1], st[3]>>

\* A round bound that stops after the first round.
MaxIterationsOne(cs) == 1

\* max_iterations = len(contours)
MaxIterations(cs) == Len(cs)

MergeVariants == {"merge_adjacent_paths", "connect_contours"}

MergeInit ==
    /\ contours \in MergeInputs
    /\ mgap \in MergeGaps
    /\ mvariant \in MergeVariants
    /\ connected = <<>>
    /\ changed = FALSE
    /\ miter = 0
    /\ mpc = "start"

\* merge_adjacent_paths: one round, or the input when it holds at most one path.
MergeAdjacentPaths ==
    /\ mpc = "start"
    /\ mvariant = "merge_adjacent_paths"
    /\ connected' = IF Len(contours) <= 1 THEN contours
                    ELSE MergeRound(contours, mgap)[1]
    /\ mpc' = "done"
    /\ UNCHANGED <<contours, mgap, mvariant, changed, miter>>
    /\ UNCHANGED notMerge

\* connect_contours: if len(contours) < 2: return contours
ConnectEarlyReturn ==
    /\ mpc = "start"
    /\ mvariant = "connect_contours"
    /\ Len(contours) < 2
    /\ connected' = contours
    /\ mpc' = "done"
    /\ UNCHANGED <<contours, mgap, mvariant, changed, miter>>
    /\ UNCHANGED notMerge

ConnectBegin ==
    /\ mpc = "start"
    /\ mvariant = "connect_contours"
    /\ Len(contours) >= 2
    /\ connected' = contours
    /\ changed' = TRUE
    /\ miter' = 0
    /\ mpc' = "loop"
    /\ UNCHANGED <<contours, mgap, mvariant>>
    /\ UNCHANGED notMerge

\* One pass of the while loop.
ConnectRound ==
    /\ mpc = "loop"
    /\ changed /\ miter < MaxIterations(contours)
    /\ connected' = MergeRound(connected, mgap)[1]
    /\ changed' = MergeRound(connected, mgap)[2]
    /\ miter' = miter + 1
    /\ UNCHANGED <<contours, mgap, mvariant, mpc>>
    /\ UNCHANGED notMerge

ConnectReturn ==
    /\ mpc = "loop"
    /\ ~(changed /\ miter < MaxIterations(contours))
    /\ mpc' = "done"
    /\ UNCHANGED <<contours, mgap, mvariant, connected, changed, miter>>
    /\ UNCHANGED notMerge

MergeNext ==
    \/ MergeAdjacentPaths
    \/ ConnectEarlyReturn
    \/ ConnectBegin
    \/ ConnectRound
    \/ ConnectReturn

MergeSpecInit ==
    /\ MergeInit
    /\ TraceIdle /\ PairIdle /\ BridgeIdle /\ DecimIdle /\ FilterIdle /\ SerialIdle /\ PipeIdle /\ RecIdle /\ SmoothIdle

SpecMerge == MergeSpecInit /\ [][MergeNext]_vars

ConnectNext ==
    \/ ConnectEarlyReturn
    \/ ConnectBegin
    \/ ConnectRound
    \/ ConnectReturn

ConnectSpecInit == MergeSpecInit /\ mvariant = "connect_contours"

\* connect_contours alone.  Its loop is a sequential program: a step that
\* can be taken is taken.
SpecConnect == ConnectSpecInit /\ [][ConnectNext]_vars /\ WF_vars(ConnectNext)

\* C15: merging two paths where the tail of the first coincides with the
\* head of the second, with gap tolerance 0, returns one path that has the
\* points of both.
C15_TouchingPathsMerged ==
    (/\ mpc = "done"
     /\ Len(contours) = 2
     /\ mgap = 0
     /\ LastOf(contours[1]) = Head(contours[2])) =>
        /\ Len(connected) = 1
        /\ Len(connected[1]) = Len(contours[1]) + Len(contours[2])

\* No path's tail is closer than max_gap to the head of another path.
MergeFixedPoint(ps, gap) ==
    \A a \in 1 .. Len(ps), b \in 1 .. Len(ps) :
        a # b => ~WithinGap(Dist2(LastOf(ps[a]), Head(ps[b])), gap)

\* C16: connect_contours terminates, after at most len(contours) rounds, and
\* what it returns is a fixed point of the merge round: no tail of one
\* returned path is closer than max_gap to the head of another.
C16_ConnectReachesFixedPoint ==
    (mpc = "start" /\ mvariant = "connect_contours") ~>
        (/\ mpc = "done"
         /\ miter <= Len(contours)
         /\ MergeFixedPoint(connected, mgap))

\* A run that needed two merging rounds and a third to see nothing change.
C16_Witness ==
    /\ mpc = "done"
    /\ mvariant = "connect_contours"
    /\ Len(contours) = 3
    /\ miter = 3
    /\ ~changed
    /\ Len(connected) = 1

\* --------------------------------------------------------- serializers
\* Largest collection handed to a serializer.
MaxSerPaths == 2

\* The points, path lengths and canvas heights the collections are drawn from.
SerPoints == {<<0, 0>>, <<1, 1>>}

SerLens == 0 .. 3

SerHeights == {1, 2}

SerPaths == UNION {[1 .. n -> SerPoints] : n \in SerLens}

SerInputs == UNION {[1 .. n -> SerPaths] : n \in 0 .. MaxSerPaths}

\* A print serializer that keeps the raster orientation.
FlipYNone(height, y) == y

\* {height - points[j][1]}
FlipY(height, y) == height - y

\* The commands output_ai writes for one path of two or more points.
AiPath(pts, height) ==
    <<<<"newpath">>, <<"moveto", pts[1][1], FlipY(height, pts[1][2])>>>>
        \o [j \in 1 .. Len(pts) - 1 |->
               <<"lineto", pts[j + 1][1], FlipY(height, pts[j + 1][2])>>]
        \o <<<<"stroke">>>>

\* The commands output_svg writes for one path of two or more points.
SvgPath(pts) ==
    <<<<"<path">>, <<"M", pts[1][1], pts[1][2]>>>>
        \o [j \in 1 .. Len(pts) - 1 |-> <<"L", pts[j + 1][1], pts[j + 1][2]>>]
        \o <<<<"/>">>>>

SerialInit ==
    /\ spaths \in SerInputs
    /\ sheight \in SerHeights
    /\ sfmt \in {"ai", "svg"}
    /\ si = 0
    /\ sout = <<>>
    /\ spc = "paths"

\* if len(path) < 2: continue
SerialSkip ==
    /\ spc = "paths"
    /\ si < Len(spaths)
    /\ Len(spaths[si + 1]) < 2
    /\ si' = si + 1
    /\ UNCHANGED <<spaths, sheight, sfmt, sout, spc>>
    /\ UNCHANGED notSerial

SerialAiPath ==
    /\ spc = "paths"
    /\ sfmt = "ai"
    /\ si < Len(spaths)
    /\ Len(spaths[si + 1]) >= 2
    /\ sout' = sout \o AiPath(spaths[si + 1], sheight)
    /\ si' = si + 1
    /\ UNCHANGED <<spaths, sheight, sfmt, spc>>
    /\ UNCHANGED notSerial

SerialSvgPath ==
    /\ spc = "paths"
    /\ sfmt = "svg"
    /\ si < Len(spaths)
    /\ Len(spaths[si + 1]) >= 2
    /\ sout' = sout \o SvgPath(spaths[si + 1])
    /\ si' = si + 1
    /\ UNCHANGED <<spaths, sheight, sfmt, spc>>
    /\ UNCHANGED notSerial

\* After the loop: showpage for the print format, the closing tags for SVG.
SerialFinish ==
    /\ spc = "paths"
    /\ si = Len(spaths)
    /\ sout' = Append(sout, IF sfmt = "ai" THEN <<"showpage">> ELSE <<"</svg>">>)
    /\ spc' = "done"
    /\ UNCHANGED <<spaths, sheight, sfmt, si>>
    /\ UNCHANGED notSerial

SerialNext ==
    \/ SerialSkip
    \/ SerialAiPath
    \/ SerialSvgPath
    \/ SerialFinish

SerialSpecInit ==
    /\ SerialInit
    /\ TraceIdle /\ PairIdle /\ BridgeIdle /\ DecimIdle /\ FilterIdle /\ MergeIdle /\ PipeIdle /\ RecIdle /\ SmoothIdle

SpecSerial == SerialSpecInit /\ [][SerialNext]_vars

\* The move-to and line-to commands of an output, in order, as
\* <<kind, x, y>> with kind "move" or "line".
RECURSIVE PathCommands(_)
PathCommands(out) ==
    IF out = <<>> THEN <<>>
    ELSE LET c == Head(out)
         IN  (IF c[1] \in {"moveto", "M"} THEN <<<<"move", c[2], c[3]>>>>
              ELSE IF c[1] \in {"lineto", "L"} THEN <<<<"line", c[2], c[3]>>>>
              ELSE <<>>) \o PathCommands(Tail(out))

\* What the claim requires of one path: nothing below two points, else one
\* move to the first point and one line to each later point.
RequiredOfPath(pts, fmt, height) ==
    IF Len(pts) < 2 THEN <<>>
    ELSE [j \in 1 .. Len(pts) |->
             <<IF j = 1 THEN "move" ELSE "line",
               pts[j][1],
               IF fmt = "ai" THEN height - pts[j][2] ELSE pts[j][2]>>]

RECURSIVE RequiredCommands(_, _, _)
RequiredCommands(ps, fmt, height) ==
    IF ps = <<>> THEN <<>>
    ELSE RequiredOfPath(Head(ps), fmt, height) \o RequiredCommands(Tail(ps), fmt, height)

\* C17: the print serializer emits, per path of two or more points and in
\* collection order, one move-to at (x0, height - y0) and one line-to at
\* (xi, height - yi) per later point, and nothing for shorter paths; the SVG
\* serializer emits the same commands with y unflipped.
C17_SerializedCommands ==
    spc = "done" => PathCommands(sout) = RequiredCommands(spaths, sfmt, sheight)

C17_Witness ==
    /\ spc = "done"
    /\ sfmt = "ai"
    /\ sheight = 2
    /\ Len(spaths) = 2
    /\ Len(spaths[1]) = 1
    /\ spaths[2] = <<<<0, 0>>, <<1, 1>>, <<0, 0>>>>
    /\ PathCommands(sout) = <<<<"move", 0, 2>>, <<"line", 1, 1>>, <<"line", 0, 2>>>>

\* ----------------------------------------------------------- pipelines
\* Largest collection the tracer hands to a path pipeline.
MaxPipePaths == 2

\* The points and lengths of the traced paths: two near points, one corner
\* and one point farther away than any merge gap.
PipePoints == {<<0, 0>>, <<6, 0>>, <<6, 6>>, <<100, 0>>}

PipeLens == 2 .. 3

PipePaths == UNION {[1 .. n -> PipePoints] : n \in PipeLens}

PipeInputs == UNION {[1 .. n -> PipePaths] : n \in 0 .. MaxPipePaths}

\* merge_adjacent_paths as a function of the collection.
merge_adjacent_paths(ps, gap) ==
    IF Len(ps) <= 1 THEN ps ELSE MergeRound(ps, gap)[1]

\* The while loop of connect_contours, from the state <<connected, changed>>.
RECURSIVE ConnectLoop(_, _, _, _)
ConnectLoop(st, gap, iterations, max_iterations) ==
    IF st[2] /\ iterations < max_iterations
    THEN CHOOSE r \in {ConnectLoop(nxt, gap, iterations + 1, max_iterations) :
                          nxt \in {MergeRound(st[1], gap)}} : TRUE
    ELSE st[1]

connect_contours(cs, gap) ==
    IF Len(cs) < 2 THEN cs ELSE ConnectLoop(<<cs, TRUE>>, gap, 0, MaxIterations(cs))

\* reduce_point_density and remove_redundant_points: decimation, unchanged
\* below 2 points.
reduce_point_density(pts, tol2) == Decimate(pts, tol2, 2)

\* The loop of process_continuous (final_continuous.py) over the merged
\* paths: min_dist 3, tolerance 4.
RECURSIVE OptimizeContinuous(_)
OptimizeContinuous(ps) ==
    IF ps = <<>> THEN <<>>
    ELSE LET reduced == reduce_point_density(Head(ps), 9)
             simplified == simplify_path_douglas(reduced, 16)
         IN  (IF Len(Head(ps)) >= 3 /\ Len(reduced) > 2 /\ Len(simplified) > 2
              THEN <<simplified>> ELSE <<>>) \o OptimizeContinuous(Tail(ps))

\* The loop of process_optimized over the merged contours: epsilon 2.0,
\* min_dist 3.
RECURSIVE OptimizeContours(_)
OptimizeContours(cs) ==
    IF cs = <<>> THEN <<>>
    ELSE LET simplified == optimize_contour(Head(cs), 4)
             cleaned == reduce_point_density(simplified, 9)
         IN  (IF Len(Head(cs)) >= 3 /\ Len(cleaned) > 2
              THEN <<cleaned>> ELSE <<>>) \o OptimizeContours(Tail(cs))

\* remove_short_segments sums the lengths of the segments of a contour and
\* compares the sum with min_length.  The sum of square roots is bracketed
\* between integers; where the brackets do not decide the comparison, both
\* outcomes are allowed.
FloorSqrt(n) == CHOOSE r \in 0 .. n : r * r <= n /\ (r + 1) * (r + 1) > n

CeilSqrt(n) == IF FloorSqrt(n) * FloorSqrt(n) = n THEN FloorSqrt(n) ELSE FloorSqrt(n) + 1

RECURSIVE TotalLenLow(_, _)
TotalLenLow(c, i) ==
    IF i > Len(c) THEN 0 ELSE FloorSqrt(Dist2(c[i], c[i - 1])) + TotalLenLow(c, i + 1)

RECURSIVE TotalLenHigh(_, _)
TotalLenHigh(c, i) ==
    IF i > Len(c) THEN 0 ELSE CeilSqrt(Dist2(c[i], c[i - 1])) + TotalLenHigh(c, i + 1)

KeepSegment(c, min_len) ==
    IF Len(c) < 3 THEN {FALSE}
    ELSE IF TotalLenLow(c, 2) >= min_len THEN {TRUE}
    ELSE IF TotalLenHigh(c, 2) < min_len THEN {FALSE}
    ELSE BOOLEAN

RECURSIVE remove_short_segments(_, _)
remove_short_segments(cs, min_len) ==
    IF cs = <<>> THEN {<<>>}
    ELSE {(IF keep THEN <<Head(cs)>> ELSE <<>>) \o rest :
              keep \in KeepSegment(Head(cs), min_len),
              rest \in remove_short_segments(Tail(cs), min_len)}

PipeVariants == {"final_continuous", "continuous_no_gap", "process_optimized"}

PipeMasks ==
    {TwoStrokes(row, la, lb) : row \in 0 .. BridgeH - 1, la \in StrokeLens, lb \in StrokeLens}

PipeInit ==
    /\ qvariant \in PipeVariants
    /\ qmask \in (IF qvariant = "continuous_no_gap" THEN PipeMasks ELSE {{}})
    /\ qpaths = <<>>
    /\ qlog = <<>>
    /\ qpc = "start"

PipeStep(ps, mask, stage, pc) ==
    /\ qpaths' = ps
    /\ qmask' = mask
    /\ qlog' = IF stage = "" THEN qlog ELSE Append(qlog, stage)
    /\ qpc' = pc
    /\ UNCHANGED qvariant
    /\ UNCHANGED notPipe

\* final_continuous.py: paths = skeleton_to_continuous_paths(skeleton); the
\* tracer itself is SpecTrace, here it may return any collection.
ContinuousTrace ==
    /\ qvariant = "final_continuous" /\ qpc = "start"
    /\ \E ps \in PipeInputs : PipeStep(ps, qmask, "Tracer", "traced")

\* paths = merge_adjacent_paths(paths, max_gap=80)
ContinuousMerge ==
    /\ qvariant = "final_continuous" /\ qpc = "traced"
    /\ PipeStep(merge_adjacent_paths(qpaths, 80), qmask, "Merger", "merged")

\* the loop with reduce_point_density and simplify_path_douglas
ContinuousSimplify ==
    /\ qvariant = "final_continuous" /\ qpc = "merged"
    /\ PipeStep(OptimizeContinuous(qpaths), qmask, "Simplifier", "optimized")

\* process_optimized: raw_contours = trace_all_contours(skeleton)
OptimizedTrace ==
    /\ qvariant = "process_optimized" /\ qpc = "start"
    /\ \E ps \in PipeInputs : PipeStep(ps, qmask, "Tracer", "traced")

\* merged = connect_contours(raw_contours, max_gap=40)
OptimizedConnect ==
    /\ qvariant = "process_optimized" /\ qpc = "traced"
    /\ PipeStep(connect_contours(qpaths, 40), qmask, "Merger", "merged")

\* the loop with optimize_contour and remove_redundant_points
OptimizedSimplify ==
    /\ qvariant = "process_optimized" /\ qpc = "merged"
    /\ PipeStep(OptimizeContours(qpaths), qmask, "Simplifier", "optimized")

\* continuous_no_gap.py: extract_endpoints, find_close_endpoints(max_dist=40)
\* and, if there are connections, connect_endpoints, all on the skeleton mask.
NoGapBridge ==
    /\ qvariant = "continuous_no_gap" /\ qpc = "start"
    /\ \E ends \in ClusterOutcomes(MedianBlur3(EndpointCandidates(qmask))) :
          LET conns == FindCloseEndpoints(ends, 40)
          IN  PipeStep(qpaths,
                       IF conns # <<>> THEN ConnectEndpoints(qmask, ends, conns) ELSE qmask,
                       "Bridger", "bridged")

\* contours = skeleton_to_contours(skeleton)
NoGapTrace ==
    /\ qvariant = "continuous_no_gap" /\ qpc = "bridged"
    /\ PipeStep(SkeletonToContours(qmask), qmask, "Tracer", "traced")

\* contours = remove_short_segments(contours, min_length=15)
NoGapFilter ==
    /\ qvariant = "continuous_no_gap" /\ qpc = "traced"
    /\ \E cs \in remove_short_segments(qpaths, 15) : PipeStep(cs, qmask, "", "optimized")

\* output_svg(...) and output_ai(...), the last calls of every pipeline.
PipeSerialize ==
    /\ qpc = "optimized"
    /\ PipeStep(qpaths, qmask, "Serializer", "done")

PipeNext ==
    \/ ContinuousTrace
    \/ ContinuousMerge
    \/ ContinuousSimplify
    \/ OptimizedTrace
    \/ OptimizedConnect
    \/ OptimizedSimplify
    \/ NoGapBridge
    \/ NoGapTrace
    \/ NoGapFilter
    \/ PipeSerialize

PipeSpecInit ==
    /\ PipeInit
    /\ TraceIdle /\ PairIdle /\ BridgeIdle /\ DecimIdle /\ FilterIdle /\ MergeIdle /\ SerialIdle /\ RecIdle /\ SmoothIdle

SpecPipe == PipeSpecInit /\ [][PipeNext]_vars

\* The place of a stage in the order the architecture prescribes.
StageRank(stage) ==
    CASE stage = "Tracer" -> 1
      [] stage = "Bridger" -> 2
      [] stage = "Simplifier" -> 3
      [] stage = "Merger" -> 4
      [] stage = "Serializer" -> 5

\* C19: in every pipeline run the stages execute in the order Tracer,
\* Bridger, Simplifier/Smoother, Merger, Serializer: no stage runs after a
\* stage that comes later in that order.
C19_StagesInOrder ==
    \A i, j \in 1 .. Len(qlog) : i < j => StageRank(qlog[i]) <= StageRank(qlog[j])

\* The points of pts at the indices of the set s, in index order.
RECURSIVE PickFrom(_, _, _)
PickFrom(pts, s, i) ==
    IF i > Len(pts) THEN <<>>
    ELSE (IF i \in s THEN <<pts[i]>> ELSE <<>>) \o PickFrom(pts, s, i + 1)

AllDouglasPeuckerNames ==
    {"simplify_path_douglas", "ramer_douglas_pecker", "optimize_contour"}

\* C21: for a path of three or more points, the result of each
\* Douglas-Peucker variant is the input restricted to a set of indices that
\* contains the first and the last index: a subsequence that starts with the
\* first point, ends with the last, and holds each split point exactly once.
C21_SubsequenceWithEnds ==
    (gpc = "done" /\ gname \in AllDouglasPeuckerNames /\ Len(gin) >= 3) =>
        \E s \in SUBSET (1 .. Len(gin)) :
            /\ 1 \in s
            /\ Len(gin) \in s
            /\ gout = PickFrom(gin, s, 1)

\* C22: in optimize_contour, when the first and the last point of the path
\* coincide, every interior point farther than epsilon from that point is kept
\* in the result.
C22_ZeroChordKeepsFarPoints ==
    (/\ gpc = "done"
     /\ gname = "optimize_contour"
     /\ Len(gin) >= 3
     /\ gin[1] = gin[Len(gin)]) =>
        \A i \in 2 .. Len(gin) - 1 :
            Dist2(gin[i], gin[1]) > gparam => gin[i] \in SeqSet(gout)

\* ------------------------------------------- the Douglas-Peucker recursion
\* recursive_simplify and rdp, one call at a time: the pending calls form a
\* stack whose top is the call that runs next.
RecPoints == (0 .. 1) \X (0 .. 1)

RecInputs == UNION {[1 .. n -> RecPoints] : n \in 0 .. MaxFilterLen}

RecEpsSqs == {0, 1}

\* The farthest interior point of the chord s-e, as <<max_idx, max_dist>>.
RecBest(name, rnd, pts, s, e) ==
    IF name = "simplify_path_douglas"
    THEN FarthestDouglas(pts, s, e, s + 1, <<s, <<0, 1>>>>)
    ELSE FarthestRdp(rnd, pts, s, e, s + 1, <<s, <<0, 1>>>>)

\* A test that also splits when the deviation equals epsilon.
SplitNeededOrEqual(name, rnd, pts, s, e, eps2) ==
    RatLeq(<<eps2, 1>>, RecBest(name, rnd, pts, s, e)[2])

\* if max_dist > tol (if max_dist > eps)
SplitNeeded(name, rnd, pts, s, e, eps2) ==
    LET best == RecBest(name, rnd, pts, s, e)
    IN  IF name = "simplify_path_douglas"
        THEN RatLess(<<eps2, 1>>, best[2])
        ELSE Exceeds(best[2], <<eps2, 1>>,
                     best[1] # s /\ Inexact(rnd, pts[best[1]], pts[s], pts[e]))

RecInit ==
    /\ rin \in RecInputs
    /\ rname \in DouglasPeuckerNames
    /\ reps2 \in RecEpsSqs
    /\ rrnd \in (IF rname = "ramer_douglas_pecker" THEN BOOLEAN ELSE {FALSE})
    /\ rstack = <<>>
    /\ rsplits = <<>>
    /\ rdepth = 0
    /\ rpc = "start"

\* if len(points) <= 2: return points (if len(points) < 3 in final_smooth.py)
RecShortReturn ==
    /\ rpc = "start"
    /\ Len(rin) < 3
    /\ rpc' = "done"
    /\ UNCHANGED <<rin, rname, reps2, rrnd, rstack, rsplits, rdepth>>
    /\ UNCHANGED notRec

\* recursive_simplify(points, 0, len(points)-1, tolerance)
RecEnter ==
    /\ rpc = "start"
    /\ Len(rin) >= 3
    /\ rstack' = <<<<1, Len(rin), 1>>>>
    /\ rdepth' = 1
    /\ rpc' = "run"
    /\ UNCHANGED <<rin, rname, reps2, rrnd, rsplits>>
    /\ UNCHANGED notRec

\* if end - start <= 1: return [pts[start]]
RecLeaf ==
    /\ rpc = "run" /\ rstack # <<>>
    /\ Head(rstack)[2] - Head(rstack)[1] <= 1
    /\ rstack' = Tail(rstack)
    /\ UNCHANGED <<rin, rname, reps2, rrnd, rsplits, rdepth, rpc>>
    /\ UNCHANGED notRec

\* else: return [pts[start], pts[end]]
RecKeep ==
    /\ rpc = "run" /\ rstack # <<>>
    /\ Head(rstack)[2] - Head(rstack)[1] > 1
    /\ ~SplitNeeded(rname, rrnd, rin, Head(rstack)[1], Head(rstack)[2], reps2)
    /\ rstack' = Tail(rstack)
    /\ UNCHANGED <<rin, rname, reps2, rrnd, rsplits, rdepth, rpc>>
    /\ UNCHANGED notRec

\* The two recursive calls, the left one first.  A call deeper than the path
\* is long is not followed.
RecSplit ==
    /\ rpc = "run" /\ rstack # <<>>
    /\ Head(rstack)[2] - Head(rstack)[1] > 1
    /\ Head(rstack)[3] < Len(rin)
    /\ SplitNeeded(rname, rrnd, rin, Head(rstack)[1], Head(rstack)[2], reps2)
    /\ LET s == Head(rstack)[1]
           e == Head(rstack)[2]
           d == Head(rstack)[3]
           m == RecBest(rname, rrnd, rin, s, e)[1]
       IN  /\ rstack' = <<<<s, m, d + 1>>, <<m, e, d + 1>>>> \o Tail(rstack)
           /\ rsplits' = Append(rsplits, <<s, m, e>>)
           /\ rdepth' = Max2(rdepth, d + 1)
    /\ UNCHANGED <<rin, rname, reps2, rrnd, rpc>>
    /\ UNCHANGED notRec

RecReturn ==
    /\ rpc = "run" /\ rstack = <<>>
    /\ rpc' = "done"
    /\ UNCHANGED <<rin, rname, reps2, rrnd, rstack, rsplits, rdepth>>
    /\ UNCHANGED notRec

RecNext ==
    \/ RecShortReturn
    \/ RecEnter
    \/ RecLeaf
    \/ RecKeep
    \/ RecSplit
    \/ RecReturn

RecSpecInit ==
    /\ RecInit
    /\ TraceIdle /\ PairIdle /\ BridgeIdle /\ DecimIdle /\ FilterIdle /\ MergeIdle /\ SerialIdle /\ PipeIdle /\ SmoothIdle

\* The recursion is a sequential program: a call that can run does run.
SpecRec == RecSpecInit /\ [][RecNext]_vars /\ WF_vars(RecNext)

\* C23: the Douglas-Peucker recursion terminates; every split index lies
\* strictly between the start and the end of its call, and no call is nested
\* deeper than the path length minus one.
C23_RecursionTerminates ==
    (rpc = "start") ~>
        (/\ rpc = "done"
         /\ \A k \in 1 .. Len(rsplits) :
                rsplits[k][1] < rsplits[k][2] /\ rsplits[k][2] < rsplits[k][3]
         /\ rdepth <= Max2(Len(rin) - 1, 0))

\* A run on four points that split twice and nested three calls deep.
C23_Witness ==
    /\ rpc = "done"
    /\ Len(rin) = 4
    /\ Len(rsplits) = 2
    /\ rdepth = 3

\* ------------------------------------------------------- simple_smooth
SmoothPoints == (0 .. 2) \X {0}

SmoothInputs == UNION {[1 .. n -> SmoothPoints] : n \in 0 .. MaxFilterLen}

SmoothWindows == 1 .. 4

\* int(round(mean)) of a sum of non-negative integers over cnt of them:
\* round to nearest, a tie to the even neighbour.
RoundHalfEven(sum, cnt) ==
    LET q == sum \div cnt
        r == sum % cnt
    IN  IF 2 * r < cnt THEN q
        ELSE IF 2 * r > cnt THEN q + 1
        ELSE IF q % 2 = 0 THEN q ELSE q + 1

\* start = max(0, i - half)
SimpleStart(i, half) == Max2(0, i - half)

\* end = min(len(points), i + half), the index after the last one averaged
SimpleEnd(n, i, half) == Min2(n, i + half)

SmoothInit ==
    /\ ain \in SmoothInputs
    /\ awindow \in SmoothWindows
    /\ ai = 0
    /\ alo = 0
    /\ ahi = 0
    /\ aout = <<>>
    /\ apc = "start"

\* if len(points) < window: return points
SmoothShortReturn ==
    /\ apc = "start"
    /\ Len(ain) < awindow
    /\ aout' = ain
    /\ apc' = "done"
    /\ UNCHANGED <<ain, awindow, ai, alo, ahi>>
    /\ UNCHANGED notSmooth

SmoothBegin ==
    /\ apc = "start"
    /\ Len(ain) >= awindow
    /\ apc' = "loop"
    /\ UNCHANGED <<ain, awindow, ai, alo, ahi, aout>>
    /\ UNCHANGED notSmooth

\* One pass of the loop over i, with a window that holds a point.
SmoothPoint ==
    /\ apc = "loop"
    /\ ai < Len(ain)
    /\ LET start == SimpleStart(ai, awindow \div 2)
           end == SimpleEnd(Len(ain), ai, awindow \div 2)
       IN  /\ start < end
           /\ alo' = start
           /\ ahi' = end - 1
           /\ aout' = Append(aout,
                          <<RoundHalfEven(SumCoord(ain, start + 1, end, 1), end - start),
                            RoundHalfEven(SumCoord(ain, start + 1, end, 2), end - start)>>)
    /\ ai' = ai + 1
    /\ UNCHANGED <<ain, awindow, apc>>
    /\ UNCHANGED notSmooth

\* One pass of the loop over i with an empty slice: np.mean([]) is nan, and
\* int(round(nan)) raises ValueError.
SmoothEmptyWindow ==
    /\ apc = "loop"
    /\ ai < Len(ain)
    /\ LET start == SimpleStart(ai, awindow \div 2)
           end == SimpleEnd(Len(ain), ai, awindow \div 2)
       IN  /\ start >= end
           /\ alo' = start
           /\ ahi' = end - 1
    /\ ai' = ai + 1
    /\ apc' = "raised"
    /\ UNCHANGED <<ain, awindow, aout>>
    /\ UNCHANGED notSmooth

SmoothReturn ==
    /\ apc = "loop"
    /\ ai = Len(ain)
    /\ apc' = "done"
    /\ UNCHANGED <<ain, awindow, ai, alo, ahi, aout>>
    /\ UNCHANGED notSmooth

SmoothNext ==
    \/ SmoothShortReturn
    \/ SmoothBegin
    \/ SmoothPoint
    \/ SmoothEmptyWindow
    \/ SmoothReturn

SmoothSpecInit ==
    /\ SmoothInit
    /\ TraceIdle /\ PairIdle /\ BridgeIdle /\ DecimIdle /\ FilterIdle /\ MergeIdle /\ SerialIdle /\ PipeIdle /\ RecIdle

SpecSmooth == SmoothSpecInit /\ [][SmoothNext]_vars

\* C24: in simple_smooth the window averaged for index i is the index range
\* max(0, i - window//2) .. min(n - 1, i + window//2); it is never empty and
\* contains i.
C24_SymmetricWindow ==
    (apc \in {"loop", "done", "raised"} /\ ai > 0) =>
        /\ alo = Max2(0, (ai - 1) - awindow \div 2)
        /\ ahi = Min2(Len(ain) - 1, (ai - 1) + awindow \div 2)
        /\ alo <= ai - 1
        /\ ai - 1 <= ahi

\* The mean sum / cnt of non-negative integers rounded to the nearest
\* integer (a half rounds up).
RoundNearest(sum, cnt) == (2 * sum + cnt) \div (2 * cnt)

\* The window of index j (1-based) in smooth_path and moving_average_smooth.
MeanWindowLo(j, window) == Max2(1, j - window \div 2)

MeanWindowHi(n, j, window) == Min2(n, j + window \div 2)

\* C25: every output coordinate of the moving-average filter smooth_path
\* (moving_average_smooth is the same computation) is the window mean rounded
\* to the nearest integer (a mean exactly half way between two integers is
\* left open).
C25_MeanRoundedToNearest ==
    (gpc = "done" /\ gname = "smooth_path" /\ Len(gin) >= gparam) =>
        \A j \in 1 .. Len(gin) : \A c \in 1 .. 2 :
            LET lo == MeanWindowLo(j, gparam)
                hi == MeanWindowHi(Len(gin), j, gparam)
            IN  2 * (SumCoord(gin, lo, hi, c) % (hi - lo + 1)) # hi - lo + 1
                    => gout[j][c] = RoundNearest(SumCoord(gin, lo, hi, c), hi - lo + 1)

\* The orders in which the paths of the index set S can be laid end to end.
BlockOrders(S) ==
    {ord \in [1 .. Cardinality(S) -> S] :
        \A a, b \in 1 .. Cardinality(S) : a # b => ord[a] # ord[b]}

\* The paths ps[ord[k]], ..., ps[ord[Len(ord)]] laid end to end.
RECURSIVE ConcatFrom(_, _, _)
ConcatFrom(ps, ord, k) ==
    IF k > Len(ord) THEN <<>> ELSE ps[ord[k]] \o ConcatFrom(ps, ord, k + 1)

TotalPoints(ps) == Len(ConcatFrom(ps, [k \in 1 .. Len(ps) |-> k], 1))

\* Every path of ins lies in exactly one path of outs, as a contiguous block
\* in its own point order, and every path of outs is made of such blocks.
BlocksConserved(ins, outs) ==
    \E f \in [1 .. Len(ins) -> 1 .. Len(outs)] :
        \A k \in 1 .. Len(outs) :
            \E ord \in BlockOrders({i \in 1 .. Len(ins) : f[i] = k}) :
                ConcatFrom(ins, ord, 1) = outs[k]

\* C26: the merger conserves paths and points: every input path appears in
\* exactly one returned path as a contiguous block in its original point
\* order, the total number of points is unchanged, and no more paths are
\* returned than were given.
C26_PathsAndPointsConserved ==
    mpc = "done" =>
        /\ BlocksConserved(contours, connected)
        /\ TotalPoints(connected) = TotalPoints(contours)
        /\ Len(connected) <= Len(contours)

\* Three paths joined into one, the second put in front of the first.
C26_Witness ==
    /\ mpc = "done"
    /\ mvariant = "merge_adjacent_paths"
    /\ Len(contours) = 3
    /\ Len(connected) = 1
    /\ contours[1] = <<<<0, 0>>, <<1, 0>>>>
    /\ connected[1][1] = <<1, 0>>
    /\ connected[1][2] = <<0, 0>>

\* C27: the merger tries all four end combinations, so two paths whose tails
\* (or whose heads) lie within the tolerance of each other are returned in
\* one path.
C27_TailsOrHeadsJoined ==
    (/\ mpc = "done"
     /\ Len(contours) = 2
     /\ \/ WithinGap(Dist2(LastOf(contours[1]), LastOf(contours[2])), mgap)
        \/ WithinGap(Dist2(Head(contours[1]), Head(contours[2])), mgap)) =>
        Len(connected) = 1

\* C28: what merge_adjacent_paths returns is a fixed point of the merge:
\* no tail of one returned path is closer than max_gap to the head of another
\* returned path, and merging the result again changes nothing.
C28_SinglePassFixedPoint ==
    (mpc = "done" /\ mvariant = "merge_adjacent_paths") =>
        /\ MergeFixedPoint(connected, mgap)
        /\ (Len(connected) > 1 => MergeRound(connected, mgap)[1] = connected)

\* The position of pixel p in the row-major scan of the outer loops.
ScanIndex(p) == p[2] * W + p[1]

FirstScanned(C) == CHOOSE p \in C : \A q \in C : ScanIndex(p) <= ScanIndex(q)

KeptComponents(m, minLen) == {C \in Components(m) : Cardinality(C) >= minLen}

\* C29: for every mask and minimum length the stack tracer and the queue
\* tracer return the same number of paths, in the same order, each with the
\* same first point and the same point set.  Both are held to one outcome
\* that does not mention the traversal order: one path per component of at
\* least min_length pixels, in the scan order of the components' first
\* pixels, each starting at that first pixel and holding exactly the
\* component's pixels.
C29_TracersAgree ==
    tpc = "done" =>
        /\ Len(paths) = Cardinality(KeptComponents(skeleton, min_length))
        /\ \A k \in 1 .. Len(paths) :
              /\ SeqSet(paths[k]) \in KeptComponents(skeleton, min_length)
              /\ paths[k][1] = FirstScanned(SeqSet(paths[k]))
        /\ \A j, k \in 1 .. Len(paths) :
              j < k => ScanIndex(paths[j][1]) < ScanIndex(paths[k][1])

\* The stack tracer on the full grid, where its second point (the last
\* neighbour pushed) differs from the queue tracer's (the first pushed).
C29_Witness ==
    /\ tpc = "done"
    /\ mode = "stack"
    /\ skeleton = Pixels
    /\ Len(paths) = 1
    /\ paths[1][2] = <<1, 1>>

\* C30: the greedy pairing is maximal: once find_close_endpoints has
\* returned, no two endpoints that were both left unpaired are closer
\* than max_dist to each other.
C30_PairingMaximal ==
    ppc = "done" =>
        \A a, b \in EndpointIndices \ used :
            a # b => Dist2(endpoints[a + 1], endpoints[b + 1]) >= max_dist * max_dist

\* A finished run that paired two endpoints and left a third unpaired whose
\* only near endpoints were taken.
C30_Witness ==
    /\ ppc = "done"
    /\ Len(endpoints) = 3
    /\ Len(connections) = 1
    /\ \E k \in EndpointIndices \ used :
          \E u \in used :
              Dist2(endpoints[k + 1], endpoints[u + 1]) < max_dist * max_dist

====
